---- MODULE Spec2Model ----
(***************************************************************************)
(* Name-to-ID conversion engine of color_size_tool: the rule store, the    *)
(* matcher (convert_color / convert_size), the composite resolver          *)
(* (convert_composite / _parse_composite_value), the conversion history    *)
(* and the batch orchestrator (auto_convert_batch).                        *)
(*                                                                         *)
(* Representation.                                                         *)
(*  - A Python str is the sequence of its code points; str.lower(),        *)
(*    `in`, str.split(sep, 1) and str.strip() are computed on that         *)
(*    sequence.                                                            *)
(*  - Optional[T] is a sequence of length 0 (None) or 1 (the value).       *)
(*  - A confidence is a fixed-point number in thousandths (1000 = 1.0).    *)
(*    The rule confidences and thresholds drawn below are multiples of 10, *)
(*    so * 0.8, * 0.5 and / 2 are exact in this representation; the        *)
(*    model does not reproduce the rounding of IEEE doubles.               *)
(*  - A storage statement may raise (storage unreachable, constraint       *)
(*    violation); every action draws the outcome of each statement it      *)
(*    executes.                                                            *)
(***************************************************************************)
EXTENDS Integers, Sequences, FiniteSets, TLC

VARIABLES
    color_conversion_rules,  \* table color_conversion_rules, rows in rowid order
    size_conversion_rules,   \* table size_conversion_rules, rows in rowid order
    conversion_history,      \* table conversion_history, rows in rowid order
    call,                    \* observation of the last service call
    batch,                   \* auto_convert_batch: its arguments, loop position and results
    retrieved_data,          \* st.session_state.retrieved_data: the caller's records
    tm9030color,             \* table tm9030color, rows in rowid order
    tm9035size,              \* table tm9035size, rows in rowid order
    insert,                  \* observation of the last InsertService call
    clock                    \* datetime.now(), counted in InsertService calls

\* the state of the registration side
registration == <<retrieved_data, tm9030color, tm9035size, insert, clock>>

vars == <<color_conversion_rules, size_conversion_rules, conversion_history, call, batch,
          registration>>

(***************************************************************************)
(* Bounds of the model.                                                    *)
(***************************************************************************)
MaxLen == 2        \* longest rule source name / record name
MaxRules == 2      \* rows of the two rule tables together
MaxRecords == 2    \* records of one batch run
MaxHistory == 2    \* rows of conversion_history
MaxCompositeLen == 3   \* longest composite value given to convert_composite
MaxParseLen == 4   \* longest input given to _parse_composite_value alone

(***************************************************************************)
(* Optional values.                                                        *)
(***************************************************************************)
None == <<>>

Some(x) == <<x>>

IsNone(o) == o = <<>>

Val(o) == o[1]

(***************************************************************************)
(* Strings.                                                                *)
(***************************************************************************)
Letters == {65, 97, 98}          \* "A", "a", "b"

Whitespace == {9, 10, 11, 12, 13, 28, 29, 30, 31, 32}   \* what str.strip() removes (ASCII)

StrUpTo(alphabet, n) == UNION {[1..k -> alphabet] : k \in 0..n}

\* str.lower() on ASCII code points
lower(s) == [i \in 1..Len(s) |-> IF s[i] \in 65..90 THEN s[i] + 32 ELSE s[i]]

\* Python `sub in s`
Contains(sub, s) ==
    \E i \in 0..(Len(s) - Len(sub)) : SubSeq(s, i + 1, i + Len(sub)) = sub

\* a < b under SQLite's BINARY collation (memcmp, shorter prefix first)
StrLess(a, b) ==
    \E k \in 1..(Len(a) + 1) :
        /\ k <= Len(b)
        /\ \A j \in 1..(k - 1) : a[j] = b[j]
        /\ (k = Len(a) + 1 \/ a[k] < b[k])

\* Python truthiness of an Optional[str]: None and "" are falsy
Truthy(name) == ~IsNone(name) /\ Val(name) # <<>>

(***************************************************************************)
(* Rule store.                                                             *)
(***************************************************************************)
\* source names given to add_*_rule: "A", "a", "ab", "b" (a case variant, a
\* duplicate-able name, a name containing two others, an unrelated name)
RuleNames == {<<65>>, <<97>>, <<97, 98>>, <<98>>}

\* (target_id, target_name, confidence) given to add_*_rule: confidence 1.0 and 0.5
RuleTargets == {<<1, "Red", 1000>>, <<2, "Blue", 500>>}

\* the ConversionRule built from a table row (get_*_rules, lines 48-57 / 82-91)
ConversionRule(row) ==
    [id |-> row.id, source_name |-> row.source_name, target_id |-> row.target_id,
     target_name |-> row.target_name, confidence |-> row.confidence,
     is_active |-> row.is_active, updated_at |-> row.updated_at]

\* the WHERE clause is missing: deactivated rows are returned as well
SelectAllOrdered(table) ==
    LET n == Len(table)
    IN  {[k \in 1..n |-> ConversionRule(table[p[k]])] :
            p \in {q \in [1..n -> 1..n] :
                     /\ \A a, b \in 1..n : a # b => q[a] # q[b]
                     /\ \A a \in 1..(n - 1) :
                          ~StrLess(table[q[a + 1]].source_name, table[q[a]].source_name)}}

\* SELECT ... WHERE is_active = 1 ORDER BY source_name: every sequence that
\* holds each active row once and is ascending in source_name.  The query
\* names no second sort key, and SQLite leaves the order of rows with equal
\* ORDER BY keys undefined, so rows with equal source_name come in any order.
SelectActiveOrdered(table) ==
    LET active == {i \in 1..Len(table) : table[i].is_active}
        n == Cardinality(active)
    IN  {[k \in 1..n |-> ConversionRule(table[p[k]])] :
            p \in {q \in [1..n -> active] :
                     /\ \A a, b \in 1..n : a # b => q[a] # q[b]
                     /\ \A a \in 1..(n - 1) :
                          ~StrLess(table[q[a + 1]].source_name, table[q[a]].source_name)}}

get_color_rules == SelectActiveOrdered(color_conversion_rules)

get_size_rules == SelectActiveOrdered(size_conversion_rules)

\* The row of INSERT INTO <domain>_conversion_rules (..., is_active, created_at,
\* updated_at) VALUES (..., 1, :now, :now).  updated_at is kept relative to
\* the row's created_at: 0 in a new row, and every UPDATE that stamps the row
\* with its own datetime.now() makes it later (Stamp).
NewRule(table, source_name, target_id, target_name, confidence) ==
    [id |-> Len(table) + 1, source_name |-> source_name, target_id |-> target_id,
     target_name |-> target_name, confidence |-> confidence, is_active |-> TRUE,
     updated_at |-> 0]

\* the number of UPDATE statements a rule row takes in one behaviour
MaxUpdates == 2

\* updated_at = :now in an UPDATE of a rule row: a later time than the row holds
Stamp(row) == [row EXCEPT !.updated_at = @ + 1]

\* the rows WHERE id = :rule_id can still be stamped within MaxUpdates
Stampable(table, rule_id) ==
    \A i \in 1..Len(table) : table[i].id = rule_id => table[i].updated_at < MaxUpdates

\* SELECT last_insert_rowid() runs in a session of its own, after the session
\* of the INSERT is closed.  The function answers for the connection it runs
\* on: the id of the new row when the session got the connection that ran the
\* INSERT, 0 on a connection that has inserted nothing, and otherwise the
\* rowid of the last INSERT that connection ran, into whichever table.
last_insert_rowid(inserted) ==
    {inserted, 0} \cup {Len(t) : t \in {color_conversion_rules, size_conversion_rules,
                                        conversion_history}}

(***************************************************************************)
(* Matcher.                                                                *)
(***************************************************************************)
FirstIndex(S) == CHOOSE i \in S : \A j \in S : i <= j

\* a single pass: the first rule that matches exactly or by substring
MatchColorSinglePass(rules, color_name) ==
    LET related == {i \in 1..Len(rules) :
                       \/ Contains(lower(color_name), lower(rules[i].source_name))
                       \/ Contains(lower(rules[i].source_name), lower(color_name))}
    IN  IF related = {} THEN None
        ELSE LET rule == rules[FirstIndex(related)]
             IN  IF lower(rule.source_name) = lower(color_name)
                 THEN Some(<<rule.target_id, rule.target_name, rule.confidence>>)
                 ELSE Some(<<rule.target_id, rule.target_name,
                             (rule.confidence * 8) \div 10>>)

\* the substring pass raises the stored confidence by a fifth
MatchColorBonus(rules, color_name) ==
    LET exact == {i \in 1..Len(rules) :
                     lower(rules[i].source_name) = lower(color_name)}
        partial == {i \in 1..Len(rules) :
                       \/ Contains(lower(color_name), lower(rules[i].source_name))
                       \/ Contains(lower(rules[i].source_name), lower(color_name))}
    IN  IF exact # {}
        THEN LET rule == rules[FirstIndex(exact)]
             IN  Some(<<rule.target_id, rule.target_name, rule.confidence>>)
        ELSE IF partial # {}
        THEN LET rule == rules[FirstIndex(partial)]
             IN  Some(<<rule.target_id, rule.target_name, (rule.confidence * 12) \div 10>>)
        ELSE None

\* lines 221-231 of convert_color, on the list `rules` that get_color_rules returned
MatchColor(rules, color_name) ==
    LET exact == {i \in 1..Len(rules) :
                     lower(rules[i].source_name) = lower(color_name)}
        partial == {i \in 1..Len(rules) :
                       \/ Contains(lower(color_name), lower(rules[i].source_name))
                       \/ Contains(lower(rules[i].source_name), lower(color_name))}
    IN  IF exact # {}
        THEN LET rule == rules[FirstIndex(exact)]
             IN  Some(<<rule.target_id, rule.target_name, rule.confidence>>)
        ELSE IF partial # {}
        THEN LET rule == rules[FirstIndex(partial)]
             IN  Some(<<rule.target_id, rule.target_name, (rule.confidence * 8) \div 10>>)
        ELSE None

\* the substring pass returns the stored confidence without the 0.8 penalty
MatchSizeNoPenalty(rules, size_name) ==
    LET related == {i \in 1..Len(rules) :
                       \/ lower(rules[i].source_name) = lower(size_name)
                       \/ Contains(lower(size_name), lower(rules[i].source_name))
                       \/ Contains(lower(rules[i].source_name), lower(size_name))}
        exact == {i \in 1..Len(rules) : lower(rules[i].source_name) = lower(size_name)}
    IN  IF related = {} THEN None
        ELSE LET rule == rules[FirstIndex(IF exact # {} THEN exact ELSE related)]
             IN  Some(<<rule.target_id, rule.target_name, rule.confidence>>)

\* lines 245-255 of convert_size, on the list `rules` that get_size_rules returned
MatchSize(rules, size_name) ==
    LET exact == {i \in 1..Len(rules) :
                     lower(rules[i].source_name) = lower(size_name)}
        partial == {i \in 1..Len(rules) :
                       \/ Contains(lower(size_name), lower(rules[i].source_name))
                       \/ Contains(lower(rules[i].source_name), lower(size_name))}
    IN  IF exact # {}
        THEN LET rule == rules[FirstIndex(exact)]
             IN  Some(<<rule.target_id, rule.target_name, rule.confidence>>)
        ELSE IF partial # {}
        THEN LET rule == rules[FirstIndex(partial)]
             IN  Some(<<rule.target_id, rule.target_name, (rule.confidence * 8) \div 10>>)
        ELSE None

\* the rules are fetched before the empty-name guard
convert_color_fetch_first(color_name, dbOk, rules) ==
    IF ~dbOk
    THEN [invoked |-> TRUE, name |-> color_name, consulted |-> TRUE, rules |-> None,
          result |-> None, raised |-> "ConversionError"]
    ELSE IF ~Truthy(color_name)
    THEN [invoked |-> TRUE, name |-> color_name, consulted |-> TRUE, rules |-> Some(rules),
          result |-> None, raised |-> ""]
    ELSE [invoked |-> TRUE, name |-> color_name, consulted |-> TRUE, rules |-> Some(rules),
          result |-> MatchColor(rules, Val(color_name)), raised |-> ""]

\* One call of convert_color.  dbOk: the SELECT of get_color_rules succeeds;
\* rules: the list it returns.  The outcome records that the matcher was
\* invoked, whether it consulted the store, the list it obtained, the value it
\* returned and the exception it raised.
convert_color(color_name, dbOk, rules) ==
    IF ~Truthy(color_name)
    THEN [invoked |-> TRUE, name |-> color_name, consulted |-> FALSE, rules |-> None,
          result |-> None, raised |-> ""]
    ELSE IF ~dbOk
    THEN [invoked |-> TRUE, name |-> color_name, consulted |-> TRUE, rules |-> None,
          result |-> None, raised |-> "ConversionError"]
    ELSE [invoked |-> TRUE, name |-> color_name, consulted |-> TRUE, rules |-> Some(rules),
          result |-> MatchColor(rules, Val(color_name)), raised |-> ""]

convert_size(size_name, dbOk, rules) ==
    IF ~Truthy(size_name)
    THEN [invoked |-> TRUE, name |-> size_name, consulted |-> FALSE, rules |-> None,
          result |-> None, raised |-> ""]
    ELSE IF ~dbOk
    THEN [invoked |-> TRUE, name |-> size_name, consulted |-> TRUE, rules |-> None,
          result |-> None, raised |-> "ConversionError"]
    ELSE [invoked |-> TRUE, name |-> size_name, consulted |-> TRUE, rules |-> Some(rules),
          result |-> MatchSize(rules, Val(size_name)), raised |-> ""]

NotCalled ==
    [invoked |-> FALSE, name |-> None, consulted |-> FALSE, rules |-> None, result |-> None,
     raised |-> ""]

(***************************************************************************)
(* Composite resolver.                                                     *)
(***************************************************************************)
separators == <<47, 45, 95, 32>>      \* ['/', '-', '_', ' ']

Min(S) == CHOOSE i \in S : \A j \in S : i <= j

Max(S) == CHOOSE i \in S : \A j \in S : i >= j

\* str.strip()
strip(s) ==
    LET keep == {i \in 1..Len(s) : s[i] \notin Whitespace}
    IN  IF keep = {} THEN <<>> ELSE SubSeq(s, Min(keep), Max(keep))

\* s.split(sep, 1) for a sep that occurs in s: the parts around its first occurrence
split(s, sep) ==
    LET i == Min({k \in 1..Len(s) : s[k] = sep})
    IN  <<SubSeq(s, 1, i - 1), SubSeq(s, i + 1, Len(s))>>

\* the delimiter is chosen by position: whichever separator occurs first in the value
_parse_composite_value_by_position(composite_value) ==
    LET at == {i \in 1..Len(composite_value) :
                  \E k \in 1..Len(separators) : composite_value[i] = separators[k]}
    IN  IF at # {}
        THEN <<Some(strip(SubSeq(composite_value, 1, Min(at) - 1))),
               Some(strip(SubSeq(composite_value, Min(at) + 1, Len(composite_value))))>>
        ELSE <<Some(strip(composite_value)), None>>

\* _parse_composite_value on a str: the pair (color_name, size_name)
_parse_composite_value(composite_value) ==
    LET found == {k \in 1..Len(separators) :
                     \E i \in 1..Len(composite_value) : composite_value[i] = separators[k]}
    IN  IF found # {}
        THEN LET parts == split(composite_value, separators[Min(found)])
             IN  <<Some(strip(parts[1])), Some(strip(parts[2]))>>
        ELSE <<Some(strip(composite_value)), None>>

\* a value without delimiter is also tried as a size name
convert_composite_size_fallback(composite_value, colorOk, colorRules, sizeOk, sizeRules) ==
    IF ~Truthy(composite_value)
    THEN [color |-> NotCalled, size |-> NotCalled, parts |-> None,
          out |-> Some(<<None, None, 0>>), raised |-> ""]
    ELSE
    LET parts == _parse_composite_value(Val(composite_value))
        color == IF Truthy(parts[1]) THEN convert_color(parts[1], colorOk, colorRules)
                 ELSE NotCalled
        size  == IF color.raised # "" THEN NotCalled
                 ELSE IF Truthy(parts[2]) THEN convert_size(parts[2], sizeOk, sizeRules)
                 ELSE IF IsNone(parts[2]) /\ Truthy(parts[1])
                 THEN convert_size(parts[1], sizeOk, sizeRules)
                 ELSE NotCalled
        color_result == color.result
        size_result  == size.result
        color_id == IF ~IsNone(color_result) THEN Some(Val(color_result)[1]) ELSE None
        size_id  == IF ~IsNone(size_result) THEN Some(Val(size_result)[1]) ELSE None
        confidence ==
            IF ~IsNone(color_result) /\ ~IsNone(size_result)
            THEN (Val(color_result)[3] + Val(size_result)[3]) \div 2
            ELSE IF ~IsNone(color_result) THEN Val(color_result)[3] \div 2
            ELSE IF ~IsNone(size_result) THEN Val(size_result)[3] \div 2
            ELSE 0
    IN  IF color.raised # "" \/ size.raised # ""
        THEN [color |-> color, size |-> size, parts |-> Some(parts), out |-> None,
              raised |-> "ConversionError"]
        ELSE [color |-> color, size |-> size, parts |-> Some(parts),
              out |-> Some(<<color_id, size_id, confidence>>), raised |-> ""]

\* the combined confidence is the larger of the two, as in the batch orchestrator
convert_composite_max(composite_value, colorOk, colorRules, sizeOk, sizeRules) ==
    IF ~Truthy(composite_value)
    THEN [color |-> NotCalled, size |-> NotCalled, parts |-> None,
          out |-> Some(<<None, None, 0>>), raised |-> ""]
    ELSE
    LET parts == _parse_composite_value(Val(composite_value))
        color == IF Truthy(parts[1]) THEN convert_color(parts[1], colorOk, colorRules)
                 ELSE NotCalled
        size  == IF color.raised # "" THEN NotCalled
                 ELSE IF Truthy(parts[2]) THEN convert_size(parts[2], sizeOk, sizeRules)
                 ELSE NotCalled
        color_result == color.result
        size_result  == size.result
        color_id == IF ~IsNone(color_result) THEN Some(Val(color_result)[1]) ELSE None
        size_id  == IF ~IsNone(size_result) THEN Some(Val(size_result)[1]) ELSE None
        confidence ==
            IF ~IsNone(color_result) /\ ~IsNone(size_result)
            THEN IF Val(color_result)[3] >= Val(size_result)[3]
                 THEN Val(color_result)[3] ELSE Val(size_result)[3]
            ELSE IF ~IsNone(color_result) THEN Val(color_result)[3] \div 2
            ELSE IF ~IsNone(size_result) THEN Val(size_result)[3] \div 2
            ELSE 0
    IN  IF color.raised # "" \/ size.raised # ""
        THEN [color |-> color, size |-> size, parts |-> Some(parts), out |-> None,
              raised |-> "ConversionError"]
        ELSE [color |-> color, size |-> size, parts |-> Some(parts),
              out |-> Some(<<color_id, size_id, confidence>>), raised |-> ""]

\* One call of convert_composite.  colorOk / sizeOk and colorRules / sizeRules
\* are the outcomes of the two rule SELECTs, should they be executed.
convert_composite(composite_value, colorOk, colorRules, sizeOk, sizeRules) ==
    IF ~Truthy(composite_value)
    THEN [color |-> NotCalled, size |-> NotCalled, parts |-> None,
          out |-> Some(<<None, None, 0>>), raised |-> ""]
    ELSE
    LET parts == _parse_composite_value(Val(composite_value))
        color == IF Truthy(parts[1]) THEN convert_color(parts[1], colorOk, colorRules)
                 ELSE NotCalled
        size  == IF color.raised # "" THEN NotCalled
                 ELSE IF Truthy(parts[2]) THEN convert_size(parts[2], sizeOk, sizeRules)
                 ELSE NotCalled
        color_result == color.result
        size_result  == size.result
        color_id == IF ~IsNone(color_result) THEN Some(Val(color_result)[1]) ELSE None
        size_id  == IF ~IsNone(size_result) THEN Some(Val(size_result)[1]) ELSE None
        confidence ==
            IF ~IsNone(color_result) /\ ~IsNone(size_result)
            THEN (Val(color_result)[3] + Val(size_result)[3]) \div 2
            ELSE IF ~IsNone(color_result) THEN Val(color_result)[3] \div 2
            ELSE IF ~IsNone(size_result) THEN Val(size_result)[3] \div 2
            ELSE 0
    IN  IF color.raised # "" \/ size.raised # ""
        THEN [color |-> color, size |-> size, parts |-> Some(parts), out |-> None,
              raised |-> "ConversionError"]
        ELSE [color |-> color, size |-> size, parts |-> Some(parts),
              out |-> Some(<<color_id, size_id, confidence>>), raised |-> ""]

(***************************************************************************)
(* State after construction: ConversionService.__init__ creates the        *)
(* tables, empty.                                                          *)
(***************************************************************************)
IdleCall ==
    [op |-> "none", arg |-> None, color |-> NotCalled, size |-> NotCalled,
     parts |-> None, out |-> None, raised |-> ""]

\* pc: "idle", "loop" (inside the for loop), "done" (returned); n: len(df);
\* i: rows processed; results: the list `results`; history0: rows of
\* conversion_history when the run started; raised: the rows whose processing
\* ended in the except clause; conversion_results: st.session_state.conversion_results
IdleBatch ==
    [pc |-> "idle", n |-> 0, convert_colors |-> FALSE, convert_sizes |-> FALSE,
     confidence_threshold |-> 0, i |-> 0, results |-> <<>>, history0 |-> 0,
     raised |-> {}, conversion_results |-> <<>>]

\* a writer (insert_tm9030color / insert_tm9035size) that was not called
NotWritten == [called |-> FALSE, executed |-> FALSE, result |-> None, raised |-> ""]

\* op: the InsertService method called last; products, insert_colors,
\* insert_sizes: its arguments; color,
\* size: what the two writers did in it; batch_result: the dict batch_insert
\* returned; raised: the exception the call raised; repeat: the call repeats
\* the call before it (same method, same products, and that call succeeded)
IdleInsert ==
    [op |-> "none", products |-> <<>>, insert_colors |-> FALSE, insert_sizes |-> FALSE,
     color |-> NotWritten, size |-> NotWritten, batch_result |-> None, raised |-> "",
     repeat |-> FALSE]

\* main.py sets retrieved_data to []; create_sample_tables creates the two
\* target tables, empty
InitRegistration ==
    /\ retrieved_data = <<>>
    /\ tm9030color = <<>>
    /\ tm9035size = <<>>
    /\ insert = IdleInsert
    /\ clock = 0

Init ==
    /\ color_conversion_rules = <<>>
    /\ size_conversion_rules = <<>>
    /\ conversion_history = <<>>
    /\ call = IdleCall
    /\ batch = IdleBatch
    /\ InitRegistration

\* Execution is single-threaded and synchronous: a call starts only when no
\* call is in progress and no batch is running.
Idle == call.op = "none" /\ batch.pc = "idle"

\* The caller takes the result of the last call.
Return ==
    /\ call.op # "none"
    /\ batch.pc = "idle"
    /\ call' = IdleCall
    /\ UNCHANGED <<color_conversion_rules, size_conversion_rules, conversion_history, batch, registration>>

(***************************************************************************)
(* Rule administration.                                                    *)
(***************************************************************************)
RuleCount == Len(color_conversion_rules) + Len(size_conversion_rules)

\* what add_*_rule hands back: the id the second query read, or DatabaseError
\* when the INSERT or the id query raised (the except clause wraps both)
AddResult(source_name, target_id, target_name, confidence, insertOk, idOk, rowid) ==
    [IdleCall EXCEPT !.arg = Some(<<source_name, target_id, target_name, confidence>>),
                     !.out = IF insertOk /\ idOk THEN Some(rowid) ELSE None,
                     !.raised = IF insertOk /\ idOk THEN "" ELSE "DatabaseError"]

\* add_color_rule: INSERT through execute_non_query (a session of its own,
\* committed when the statement succeeded), then SELECT last_insert_rowid()
\* through execute_query (another session); confidence is stored as given
AddColorRule(source_name, target_id, target_name, confidence, insertOk, idOk, rowid) ==
    /\ Idle
    /\ RuleCount < MaxRules
    /\ color_conversion_rules' =
          IF insertOk
          THEN Append(color_conversion_rules,
                      NewRule(color_conversion_rules, source_name, target_id,
                              target_name, confidence))
          ELSE color_conversion_rules
    /\ call' = [AddResult(source_name, target_id, target_name, confidence,
                          insertOk, idOk, rowid) EXCEPT !.op = "add_color_rule"]
    /\ UNCHANGED <<size_conversion_rules, conversion_history, batch, registration>>

AddSizeRule(source_name, target_id, target_name, confidence, insertOk, idOk, rowid) ==
    /\ Idle
    /\ RuleCount < MaxRules
    /\ size_conversion_rules' =
          IF insertOk
          THEN Append(size_conversion_rules,
                      NewRule(size_conversion_rules, source_name, target_id,
                              target_name, confidence))
          ELSE size_conversion_rules
    /\ call' = [AddResult(source_name, target_id, target_name, confidence,
                          insertOk, idOk, rowid) EXCEPT !.op = "add_size_rule"]
    /\ UNCHANGED <<color_conversion_rules, conversion_history, batch, registration>>

\* SET is_active = NOT is_active: a second call makes the rule active again
ToggleActive(table, rule_id) ==
    [i \in 1..Len(table) |->
        IF table[i].id = rule_id
        THEN Stamp([table[i] EXCEPT !.is_active = ~@]) ELSE table[i]]

\* UPDATE ... SET is_active = 0, updated_at = :now WHERE id = :rule_id: the
\* statement names no condition on is_active, so a row that is inactive
\* already is written again
Deactivate(table, rule_id) ==
    [i \in 1..Len(table) |->
        IF table[i].id = rule_id
        THEN Stamp([table[i] EXCEPT !.is_active = FALSE]) ELSE table[i]]

\* delete_rule: one UPDATE of <rule_type>_conversion_rules through
\* execute_non_query; any exception becomes DatabaseError
DeleteRule(rule_id, rule_type, updateOk) ==
    /\ Idle
    /\ Stampable(IF rule_type = "color" THEN color_conversion_rules
                 ELSE size_conversion_rules, rule_id)
    /\ color_conversion_rules' =
          IF updateOk /\ rule_type = "color"
          THEN Deactivate(color_conversion_rules, rule_id) ELSE color_conversion_rules
    /\ size_conversion_rules' =
          IF updateOk /\ rule_type = "size"
          THEN Deactivate(size_conversion_rules, rule_id) ELSE size_conversion_rules
    /\ call' = [IdleCall EXCEPT !.op = "delete_rule",
                                !.arg = Some(<<rule_id, rule_type>>),
                                !.raised = IF updateOk THEN "" ELSE "DatabaseError"]
    /\ UNCHANGED <<conversion_history, batch, registration>>

\* **kwargs of update_rule: a keyword is present (Some) or absent (None);
\* source_name stands for a keyword update_rule does not take up
NoKwargs == [target_id |-> None, target_name |-> None, confidence |-> None, is_active |-> None, source_name |-> None]

\* the keywords update_rule copies into the SET clause, of those given
update_fields(kwargs) ==
    {key \in {"target_id", "target_name", "confidence", "is_active"} : kwargs[key] # None}

\* The SET clause names the keyword itself as the column.  confidence and
\* is_active are columns of both rule tables; the target columns are called
\* target_color_id / target_size_id and target_color_name / target_size_name,
\* so a statement that sets target_id or target_name is refused by the store.
RuleColumns == {"confidence", "is_active"}

\* UPDATE <table> SET <update_fields>, updated_at = :now WHERE id = :rule_id;
\* the values are stored as given
Update(table, rule_id, kwargs) ==
    [i \in 1..Len(table) |->
        IF table[i].id = rule_id
        THEN LET c == IF kwargs.confidence # None
                      THEN [table[i] EXCEPT !.confidence = Val(kwargs.confidence)]
                      ELSE table[i]
                 a == IF kwargs.is_active # None
                      THEN [c EXCEPT !.is_active = Val(kwargs.is_active)]
                      ELSE c
             IN  Stamp(a)
        ELSE table[i]]

\* the exception the body of update_rule raises, "" when it raises none:
\* ValidationError before any statement when no keyword was taken up, and
\* the store's error when the UPDATE fails
UpdateRaises(kwargs, updateOk) ==
    IF update_fields(kwargs) = {} THEN "ValidationError"
    ELSE IF updateOk /\ update_fields(kwargs) \subseteq RuleColumns THEN ""
    ELSE "OperationalError"

\* except Exception as e: raise DatabaseError(...).  The clause encloses the
\* whole body, the raise of ValidationError included.
Wrapped(raised) == IF raised = "" THEN "" ELSE "DatabaseError"

\* update_rule(rule_id, rule_type, **kwargs)
UpdateRule(rule_id, rule_type, kwargs, updateOk) ==
    /\ Idle
    /\ Stampable(IF rule_type = "color" THEN color_conversion_rules
                 ELSE size_conversion_rules, rule_id)
    /\ \E raised \in {UpdateRaises(kwargs, updateOk)} :
          /\ color_conversion_rules' =
                IF raised = "" /\ rule_type = "color"
                THEN Update(color_conversion_rules, rule_id, kwargs)
                ELSE color_conversion_rules
          /\ size_conversion_rules' =
                IF raised = "" /\ rule_type = "size"
                THEN Update(size_conversion_rules, rule_id, kwargs)
                ELSE size_conversion_rules
          /\ call' = [IdleCall EXCEPT !.op = "update_rule",
                                      !.arg = Some(<<rule_id, rule_type, kwargs>>),
                                      !.raised = Wrapped(raised)]
    /\ UNCHANGED <<conversion_history, batch, registration>>

\* Rule administration alone, with every confidence a caller can pass: below
\* 0, inside [0, 1] and above 1.
AdminNames == {<<97>>, <<98>>}

AdminTargets == {<<1, "Red">>}

AdminConfidences == {0 - 500, 1000, 1500}

UpdateKwargs ==
    {NoKwargs, [NoKwargs EXCEPT !.source_name = Some(<<98>>)],
     [NoKwargs EXCEPT !.target_id = Some(2)]}
    \cup {[NoKwargs EXCEPT !.confidence = Some(c)] : c \in AdminConfidences}
    \cup {[NoKwargs EXCEPT !.is_active = Some(b)] : b \in BOOLEAN}

NextAdmin ==
    \/ \E s \in AdminNames, t \in AdminTargets, c \in AdminConfidences, ok \in BOOLEAN,
          idOk \in BOOLEAN, rowid \in last_insert_rowid(Len(color_conversion_rules) + 1) :
          AddColorRule(s, t[1], t[2], c, ok, idOk, rowid)
    \/ \E s \in AdminNames, t \in AdminTargets, c \in AdminConfidences, ok \in BOOLEAN,
          idOk \in BOOLEAN, rowid \in last_insert_rowid(Len(size_conversion_rules) + 1) :
          AddSizeRule(s, t[1], t[2], c, ok, idOk, rowid)
    \/ \E id \in 1..MaxRules, ty \in {"color", "size"}, kw \in UpdateKwargs, ok \in BOOLEAN :
          UpdateRule(id, ty, kw, ok)
    \/ \E id \in 1..MaxRules, ty \in {"color", "size"}, ok \in BOOLEAN :
          DeleteRule(id, ty, ok)
    \/ Return

SpecAdmin == Init /\ [][NextAdmin]_vars

(***************************************************************************)
(* Matcher calls.                                                          *)
(***************************************************************************)
QueryNames == {None} \cup {Some(s) : s \in StrUpTo(Letters, MaxLen)}

ConvertColor(color_name, dbOk, rules) ==
    /\ Idle
    /\ LET r == convert_color(color_name, dbOk, rules)
       IN  call' = [IdleCall EXCEPT !.op = "convert_color", !.arg = color_name,
                                    !.color = r, !.raised = r.raised]
    /\ UNCHANGED <<color_conversion_rules, size_conversion_rules, conversion_history, batch, registration>>

ConvertSize(size_name, dbOk, rules) ==
    /\ Idle
    /\ LET r == convert_size(size_name, dbOk, rules)
       IN  call' = [IdleCall EXCEPT !.op = "convert_size", !.arg = size_name,
                                    !.size = r, !.raised = r.raised]
    /\ UNCHANGED <<color_conversion_rules, size_conversion_rules, conversion_history, batch, registration>>

\* composite values given to convert_composite: None and the strings of
\* "a", "/", TAB up to MaxCompositeLen
CompositeLetters == {97, 47, 9}

CompositeValues == {None} \cup {Some(s) : s \in StrUpTo(CompositeLetters, MaxCompositeLen)}

ConvertComposite(composite_value, colorOk, colorRules, sizeOk, sizeRules) ==
    /\ Idle
    /\ LET r == convert_composite(composite_value, colorOk, colorRules, sizeOk, sizeRules)
       IN  call' = [op |-> "convert_composite", arg |-> composite_value,
                    color |-> r.color, size |-> r.size, parts |-> r.parts,
                    out |-> r.out, raised |-> r.raised]
    /\ UNCHANGED <<color_conversion_rules, size_conversion_rules, conversion_history, batch, registration>>

Next ==
    \/ \E s \in RuleNames, t \in RuleTargets, ok \in BOOLEAN, idOk \in BOOLEAN,
          rowid \in last_insert_rowid(Len(color_conversion_rules) + 1) :
          AddColorRule(s, t[1], t[2], t[3], ok, idOk, rowid)
    \/ \E s \in RuleNames, t \in RuleTargets, ok \in BOOLEAN, idOk \in BOOLEAN,
          rowid \in last_insert_rowid(Len(size_conversion_rules) + 1) :
          AddSizeRule(s, t[1], t[2], t[3], ok, idOk, rowid)
    \/ \E id \in 1..MaxRules, ty \in {"color", "size"}, ok \in BOOLEAN :
          DeleteRule(id, ty, ok)
    \/ \E nm \in QueryNames, ok \in BOOLEAN, rules \in get_color_rules :
          ConvertColor(nm, ok, rules)
    \/ \E nm \in QueryNames, ok \in BOOLEAN, rules \in get_size_rules :
          ConvertSize(nm, ok, rules)
    \/ \E v \in CompositeValues, cok \in BOOLEAN, crules \in get_color_rules,
          sok \in BOOLEAN, srules \in get_size_rules :
          ConvertComposite(v, cok, crules, sok, srules)
    \/ Return

Spec == Init /\ [][Next]_vars

(***************************************************************************)
(* _parse_composite_value alone, on every string of "a", the four          *)
(* separators and TAB up to MaxParseLen.                                   *)
(***************************************************************************)
ParseLetters == {97, 47, 45, 95, 32, 9}

ParseInputs == StrUpTo(ParseLetters, MaxParseLen)

InitParse ==
    /\ color_conversion_rules = <<>>
    /\ size_conversion_rules = <<>>
    /\ conversion_history = <<>>
    /\ \E v \in ParseInputs : call = [IdleCall EXCEPT !.op = "input", !.arg = Some(v)]
    /\ batch = IdleBatch
    /\ InitRegistration

ParseCompositeValue ==
    /\ call.op = "input"
    /\ call' = [call EXCEPT !.op = "_parse_composite_value",
                            !.parts = Some(_parse_composite_value(Val(call.arg)))]
    /\ UNCHANGED <<color_conversion_rules, size_conversion_rules, conversion_history, batch, registration>>

NextParse == ParseCompositeValue

SpecParse == InitParse /\ [][NextParse]_vars

(***************************************************************************)
(* Conversion history.                                                     *)
(***************************************************************************)
\* the row add_conversion_history inserts (original_value and the timestamps
\* do not take part in any decision and are left out)
HistoryRow(product_id, converted_color_id, converted_size_id, conversion_type, status, confidence, error_message) ==
    [id |-> Len(conversion_history) + 1, product_id |-> product_id,
     converted_color_id |-> converted_color_id, converted_size_id |-> converted_size_id,
     conversion_type |-> conversion_type, status |-> status,
     confidence |-> confidence, error_message |-> error_message]

\* the new row is put in front of the rows stored before
add_conversion_history_newest_first(row, insertOk, idOk) ==
    IF ~insertOk
    THEN [table |-> conversion_history, raised |-> "DatabaseError"]
    ELSE [table |-> <<row>> \o conversion_history,
          raised |-> IF idOk THEN "" ELSE "DatabaseError"]

\* add_conversion_history: the INSERT runs and commits in its own session,
\* then SELECT last_insert_rowid() runs in another one; either may raise, and
\* the method then raises DatabaseError.  Returns the table and the exception.
add_conversion_history(row, insertOk, idOk) ==
    IF ~insertOk
    THEN [table |-> conversion_history, raised |-> "DatabaseError"]
    ELSE [table |-> Append(conversion_history, row),
          raised |-> IF idOk THEN "" ELSE "DatabaseError"]

(***************************************************************************)
(* Batch orchestrator: auto_convert_batch.                                 *)
(***************************************************************************)
\* rule source names of the batch runs: "ab"
BatchRuleNames == {<<97, 98>>}

\* color_name / size_name of a record: "AB", "a", "bb" (equal to the rule name
\* but for case, contained in it, unrelated to it)
RecordNames == {Some(<<65, 66>>), Some(<<97>>), Some(<<98, 98>>)}

\* color_id / size_id of a record: unset or set
RecordIds == {None, Some(7)}

\* the rows of pending_df (data with color_id or size_id unset, line 208)
PendingRows ==
    {r \in [color_name : RecordNames, size_name : RecordNames,
            color_id : RecordIds, size_id : RecordIds] :
        IsNone(r.color_id) \/ IsNone(r.size_id)}

\* values of the threshold slider (0.0 to 1.0 in steps of 0.1) that are drawn
Thresholds == {0, 500, 1000}

ConversionResult(product_id) ==
    [product_id |-> product_id, converted_color_id |-> None,
     converted_color_name |-> None, converted_size_id |-> None,
     converted_size_name |-> None, confidence |-> 0, conversion_type |-> "auto",
     status |-> "pending", error_message |-> None]

max(a, b) == IF b > a THEN b ELSE a

\* lines 401-407: the color conversion of one row
WithColor(result, color_result) ==
    IF IsNone(color_result) THEN result
    ELSE [result EXCEPT !.converted_color_id = Some(Val(color_result)[1]),
                        !.converted_color_name = Some(Val(color_result)[2]),
                        !.confidence = max(result.confidence, Val(color_result)[3])]

\* the size confidence overwrites the result confidence instead of raising it
WithSizeOverwrite(result, size_result) ==
    IF IsNone(size_result) THEN result
    ELSE [result EXCEPT !.converted_size_id = Some(Val(size_result)[1]),
                        !.converted_size_name = Some(Val(size_result)[2]),
                        !.confidence = Val(size_result)[3]]

\* lines 409-415: the size conversion of one row
WithSize(result, size_result) ==
    IF IsNone(size_result) THEN result
    ELSE [result EXCEPT !.converted_size_id = Some(Val(size_result)[1]),
                        !.converted_size_name = Some(Val(size_result)[2]),
                        !.confidence = max(result.confidence, Val(size_result)[3])]

\* the threshold itself is not enough: success needs confidence > threshold
WithStatusStrict(result, confidence_threshold) ==
    IF result.confidence > confidence_threshold
    THEN [result EXCEPT !.status = "success"]
    ELSE [result EXCEPT !.status = "failed",
                        !.error_message = Some("insufficient confidence")]

\* a result below the threshold loses the ids the matchers resolved
WithStatusClearing(result, confidence_threshold) ==
    IF result.confidence >= confidence_threshold
    THEN [result EXCEPT !.status = "success"]
    ELSE [result EXCEPT !.status = "failed",
                        !.error_message = Some("insufficient confidence"),
                        !.converted_color_id = None, !.converted_color_name = None,
                        !.converted_size_id = None, !.converted_size_name = None]

\* lines 417-422: the confidence check
WithStatus(result, confidence_threshold) ==
    IF result.confidence >= confidence_threshold
    THEN [result EXCEPT !.status = "success"]
    ELSE [result EXCEPT !.status = "failed",
                        !.error_message = Some("insufficient confidence")]

\* the button of show_auto_conversion: auto_convert_batch(pending_df, ...)
BatchStart(n, convert_colors, convert_sizes, confidence_threshold) ==
    /\ Idle
    /\ Len(conversion_history) + n <= MaxHistory
    /\ batch' = [IdleBatch EXCEPT !.pc = "loop", !.n = n,
                                  !.convert_colors = convert_colors,
                                  !.convert_sizes = convert_sizes,
                                  !.confidence_threshold = confidence_threshold,
                                  !.history0 = Len(conversion_history)]
    /\ UNCHANGED <<color_conversion_rules, size_conversion_rules, conversion_history, call, registration>>

\* the storage statements of one iteration, in the order they are executed
Statements == <<"color_rules", "size_rules", "history_insert", "history_id">>

\* the exception of record k ends the whole run instead of the iteration
ExceptAbort(b, k) == [b EXCEPT !.pc = "done", !.raised = @ \cup {k}]

\* lines 438-440: the except clause logs the exception of record k and
\* continues with the next row
ExceptContinue(b, k) == [b EXCEPT !.i = @ + 1, !.raised = @ \cup {k}]

\* One iteration of the for loop (lines 392-440) on the next row of df.  The
\* row's product_id is its position in df.  fails: the first storage statement
\* of the iteration that raises, if executed ("none": none raises); the first
\* exception ends the iteration, so no later statement is executed.
BatchRecord(row, fails, colorRules, sizeRules) ==
    /\ batch.pc = "loop"
    /\ batch.i < batch.n
    /\ \E color \in {IF batch.convert_colors /\ IsNone(row.color_id)
                      THEN convert_color(row.color_name, fails # "color_rules", colorRules)
                      ELSE NotCalled} :
       \E size \in {IF color.raised # "" THEN NotCalled
                     ELSE IF batch.convert_sizes /\ IsNone(row.size_id)
                     THEN convert_size(row.size_name, fails # "size_rules", sizeRules)
                     ELSE NotCalled} :
       \E withColor \in {WithColor(ConversionResult(batch.i + 1), color.result)} :
       \E withSize \in {WithSize(withColor, size.result)} :
       \E result \in {WithStatus(withSize, batch.confidence_threshold)} :
       \E row_ \in {HistoryRow(result.product_id, result.converted_color_id,
                                result.converted_size_id, "auto", result.status,
                                result.confidence, result.error_message)} :
       \E added \in {add_conversion_history(row_, fails # "history_insert",
                                             fails # "history_id")} :
           IF color.raised # "" \/ size.raised # ""
           THEN /\ batch' = ExceptContinue(batch, batch.i + 1)
                /\ call' = [IdleCall EXCEPT !.op = "auto_convert_batch", !.color = color,
                                            !.size = size, !.raised = "ConversionError"]
                /\ UNCHANGED conversion_history
           ELSE /\ batch' = IF added.raised # ""
                           THEN ExceptContinue([batch EXCEPT !.results = Append(@, result)],
                                               batch.i + 1)
                           ELSE [batch EXCEPT !.i = @ + 1, !.results = Append(@, result)]
                /\ call' = [IdleCall EXCEPT !.op = "auto_convert_batch", !.color = color,
                                            !.size = size, !.raised = added.raised]
                /\ conversion_history' = added.table
    /\ UNCHANGED <<color_conversion_rules, size_conversion_rules, registration>>

\* after the loop (line 443): the results are stored in the session state
BatchFinish ==
    /\ batch.pc = "loop"
    /\ batch.i = batch.n
    /\ batch' = [batch EXCEPT !.pc = "done", !.conversion_results = batch.results]
    /\ call' = IdleCall
    /\ UNCHANGED <<color_conversion_rules, size_conversion_rules, conversion_history, registration>>

\* the page is left; the next run starts from a fresh result list
BatchReturn ==
    /\ batch.pc = "done"
    /\ batch' = IdleBatch
    /\ UNCHANGED <<color_conversion_rules, size_conversion_rules, conversion_history, call, registration>>

NextBatch ==
    \/ \E s \in BatchRuleNames, t \in RuleTargets, ok \in BOOLEAN :
          AddColorRule(s, t[1], t[2], t[3], ok, TRUE, Len(color_conversion_rules) + 1)
    \/ \E s \in BatchRuleNames, t \in RuleTargets, ok \in BOOLEAN :
          AddSizeRule(s, t[1], t[2], t[3], ok, TRUE, Len(size_conversion_rules) + 1)
    \/ Return
    \/ \E n \in 1..MaxRecords, cc \in BOOLEAN, cs \in BOOLEAN, th \in Thresholds :
          BatchStart(n, cc, cs, th)
    \/ \E row \in PendingRows, fails \in {"none"} \cup {Statements[k] : k \in 1..4},
          crules \in get_color_rules, srules \in get_size_rules :
          BatchRecord(row, fails, crules, srules)
    \/ BatchFinish
    \/ BatchReturn

SpecBatch == Init /\ [][NextBatch]_vars

\* The runs whose termination is checked: every record has both ids unset
\* and the size name "a", the threshold is the slider's default 0.5, and only
\* color rules are stored.
LiveRows ==
    {r \in PendingRows :
        IsNone(r.color_id) /\ IsNone(r.size_id) /\ r.size_name = Some(<<97>>)}

LiveBatchRecord ==
    \E row \in LiveRows, fails \in {"none"} \cup {Statements[k] : k \in 1..4},
       crules \in get_color_rules, srules \in get_size_rules :
       BatchRecord(row, fails, crules, srules)

\* auto_convert_batch is one synchronous call: once started, its loop and
\* the statements after it run without waiting for anything
BatchStep == batch.pc = "loop" /\ (LiveBatchRecord \/ BatchFinish)

NextBatchLive ==
    \/ \E s \in BatchRuleNames, t \in RuleTargets, ok \in BOOLEAN :
          AddColorRule(s, t[1], t[2], t[3], ok, TRUE, Len(color_conversion_rules) + 1)
    \/ Return
    \/ \E n \in 1..MaxRecords, cc \in BOOLEAN, cs \in BOOLEAN :
          BatchStart(n, cc, cs, 500)
    \/ LiveBatchRecord
    \/ BatchFinish
    \/ BatchReturn

SpecBatchLive == Init /\ [][NextBatchLive]_vars /\ WF_vars(BatchStep)

(***************************************************************************)
(* InsertService: the writers of the target tables tm9030color and         *)
(* tm9035size.  A table is the sequence of its rows in rowid order (the     *)
(* AUTOINCREMENT id is left out; no statement reads it).                   *)
(***************************************************************************)
\* calls of InsertService in one behaviour; also the latest timestamp
MaxClock == 2

\* longest product list given to a call
MaxProducts == 2

\* Product objects given to the writers: "P1" with both ids; "P1" again with
\* other values, no color_name and no size_id; "P2" with no color_id; "P2"
\* with product_name None, which the NOT NULL column refuses; "P2" with both ids
Products ==
    {[product_id |-> "P1", product_name |-> Some("n1"), color_name |-> Some(<<97>>),
      size_name |-> Some(<<97>>), color_id |-> Some(1), size_id |-> Some(1)],
     [product_id |-> "P1", product_name |-> Some("n2"), color_name |-> None,
      size_name |-> None, color_id |-> Some(2), size_id |-> None],
     [product_id |-> "P2", product_name |-> Some("n1"), color_name |-> Some(<<97>>),
      size_name |-> Some(<<97>>), color_id |-> None, size_id |-> Some(2)],
     [product_id |-> "P2", product_name |-> None, color_name |-> Some(<<97>>),
      size_name |-> Some(<<97>>), color_id |-> Some(1), size_id |-> Some(1)],
     [product_id |-> "P2", product_name |-> Some("n2"), color_name |-> Some(<<97>>),
      size_name |-> Some(<<97>>), color_id |-> Some(3), size_id |-> Some(3)]}

ProductLists == UNION {[1..n -> Products] : n \in 0..MaxProducts}

\* `name or ''`
OrEmpty(name) == IF Truthy(name) THEN Val(name) ELSE <<>>

\* the parameter rows of the INSERT statement, one per product, all stamped
\* with the time of the call
_build_tm9030color_insert_query(products, now) ==
    [i \in 1..Len(products) |->
        [product_id |-> products[i].product_id, product_name |-> products[i].product_name,
         color_name |-> OrEmpty(products[i].color_name), color_id |-> products[i].color_id,
         created_at |-> now, updated_at |-> now]]

_build_tm9035size_insert_query(products, now) ==
    [i \in 1..Len(products) |->
        [product_id |-> products[i].product_id, product_name |-> products[i].product_name,
         size_name |-> OrEmpty(products[i].size_name), size_id |-> products[i].size_id,
         created_at |-> now, updated_at |-> now]]

\* the conflict overwrites every column, created_at included
OnConflictReplace(domain, old, excluded) == excluded

\* ON CONFLICT(product_id) DO UPDATE SET ...: created_at is not in the list
OnConflict(domain, old, excluded) ==
    IF domain = "color"
    THEN [old EXCEPT !.product_name = excluded.product_name,
                     !.color_name = excluded.color_name,
                     !.color_id = excluded.color_id,
                     !.updated_at = excluded.updated_at]
    ELSE [old EXCEPT !.product_name = excluded.product_name,
                     !.size_name = excluded.size_name,
                     !.size_id = excluded.size_id,
                     !.updated_at = excluded.updated_at]

\* the row is inserted whether or not its product_id is stored already
PlainInsert(domain, table, row) == Append(table, row)

\* INSERT ... ON CONFLICT(product_id) DO UPDATE of one row (product_id is UNIQUE)
Upsert(domain, table, row) ==
    IF \E i \in 1..Len(table) : table[i].product_id = row.product_id
    THEN [i \in 1..Len(table) |->
             IF table[i].product_id = row.product_id
             THEN OnConflict(domain, table[i], row) ELSE table[i]]
    ELSE Append(table, row)

\* product_name and color_id / size_id are NOT NULL
NotNullViolated(domain, row) ==
    \/ IsNone(row.product_name)
    \/ IsNone(IF domain = "color" THEN row.color_id ELSE row.size_id)

\* the rows are applied from the last to the first: of several rows with one
\* product_id the first one stays
RECURSIVE UpsertAllLastFirst(_, _, _)
UpsertAllLastFirst(domain, table, rows) ==
    IF rows = <<>> THEN table
    ELSE UpsertAllLastFirst(domain, Upsert(domain, table, rows[Len(rows)]),
                            SubSeq(rows, 1, Len(rows) - 1))

\* the rows of the VALUES list are applied in the order of the list
RECURSIVE UpsertAll(_, _, _)
UpsertAll(domain, table, rows) ==
    IF rows = <<>> THEN table
    ELSE UpsertAll(domain, Upsert(domain, table, Head(rows)), Tail(rows))

\* session.execute of the multi-row statement: SQLite applies the rows in
\* order and, when a row is refused, undoes the whole statement and raises
Execute(domain, table, rows) ==
    IF \E i \in 1..Len(rows) : NotNullViolated(domain, rows[i])
    THEN [table |-> table, raised |-> "IntegrityError"]
    ELSE [table |-> UpsertAll(domain, table, rows), raised |-> ""]

\* the dict a writer returns
WriterResult(inserted_count, skipped_count) ==
    [success |-> TRUE, inserted_count |-> inserted_count, skipped_count |-> skipped_count]

\* no product is filtered out: the statement is built from all products and
\* executed, and none is counted as skipped
insert_tm9030color_unfiltered(products, table, now, dbOk) ==
    LET done == Execute("color", table, _build_tm9030color_insert_query(products, now))
    IN  IF ~dbOk \/ done.raised # ""
        THEN [called |-> TRUE, executed |-> TRUE, result |-> None,
              raised |-> "DatabaseError", table |-> table]
        ELSE [called |-> TRUE, executed |-> TRUE,
              result |-> Some(WriterResult(Len(products), 0)),
              raised |-> "", table |-> done.table]

\* the rows are written one statement and one commit at a time: the rows
\* before the refused one stay stored
RECURSIVE CommitRowByRow(_, _, _)
CommitRowByRow(domain, table, rows) ==
    IF rows = <<>> THEN [table |-> table, raised |-> ""]
    ELSE IF NotNullViolated(domain, Head(rows))
    THEN [table |-> table, raised |-> "IntegrityError"]
    ELSE CommitRowByRow(domain, Upsert(domain, table, Head(rows)), Tail(rows))

insert_tm9030color_row_by_row(products, table, now, dbOk) ==
    LET color_products == SelectSeq(products, LAMBDA p : ~IsNone(p.color_id))
        done == CommitRowByRow("color", table,
                               _build_tm9030color_insert_query(color_products, now))
    IN  IF color_products = <<>>
        THEN [called |-> TRUE, executed |-> FALSE,
              result |-> Some(WriterResult(0, Len(products))), raised |-> "",
              table |-> table]
        ELSE IF ~dbOk
        THEN [called |-> TRUE, executed |-> TRUE, result |-> None,
              raised |-> "DatabaseError", table |-> table]
        ELSE IF done.raised # ""
        THEN [called |-> TRUE, executed |-> TRUE, result |-> None,
              raised |-> "DatabaseError", table |-> done.table]
        ELSE [called |-> TRUE, executed |-> TRUE,
              result |-> Some(WriterResult(Len(color_products),
                                           Len(products) - Len(color_products))),
              raised |-> "", table |-> done.table]

\* insert_tm9030color.  dbOk: the storage executes and commits the statement;
\* otherwise execute or commit raises.  On an exception get_session rolls the
\* session back, which leaves the table as it was, and the writer raises
\* DatabaseError.  The result is what the writer did, with the table it leaves.
insert_tm9030color(products, table, now, dbOk) ==
    LET color_products == SelectSeq(products, LAMBDA p : ~IsNone(p.color_id))
        done == Execute("color", table, _build_tm9030color_insert_query(color_products, now))
    IN  IF color_products = <<>>
        THEN [called |-> TRUE, executed |-> FALSE,
              result |-> Some(WriterResult(0, Len(products))), raised |-> "",
              table |-> table]
        ELSE IF ~dbOk \/ done.raised # ""
        THEN [called |-> TRUE, executed |-> TRUE, result |-> None,
              raised |-> "DatabaseError", table |-> table]
        ELSE [called |-> TRUE, executed |-> TRUE,
              result |-> Some(WriterResult(Len(color_products),
                                           Len(products) - Len(color_products))),
              raised |-> "", table |-> done.table]

insert_tm9035size(products, table, now, dbOk) ==
    LET size_products == SelectSeq(products, LAMBDA p : ~IsNone(p.size_id))
        done == Execute("size", table, _build_tm9035size_insert_query(size_products, now))
    IN  IF size_products = <<>>
        THEN [called |-> TRUE, executed |-> FALSE,
              result |-> Some(WriterResult(0, Len(products))), raised |-> "",
              table |-> table]
        ELSE IF ~dbOk \/ done.raised # ""
        THEN [called |-> TRUE, executed |-> TRUE, result |-> None,
              raised |-> "DatabaseError", table |-> table]
        ELSE [called |-> TRUE, executed |-> TRUE,
              result |-> Some(WriterResult(Len(size_products),
                                           Len(products) - Len(size_products))),
              raised |-> "", table |-> done.table]

\* a writer that was not called, with the table it did not touch
Untouched(table) ==
    [called |-> FALSE, executed |-> FALSE, result |-> None, raised |-> "", table |-> table]

\* what a writer did, without the table
Outcome(w) ==
    [called |-> w.called, executed |-> w.executed, result |-> w.result, raised |-> w.raised]

\* the dict batch_insert returns, from what the two writers did
BatchResult(products, color, size, now) ==
    LET errors == (IF color.raised # "" THEN <<"color">> ELSE <<>>)
                  \o (IF size.raised # "" THEN <<"size">> ELSE <<>>)
    IN  [success |-> errors = <<>>, total_products |-> Len(products),
         color_result |-> color.result, size_result |-> size.result,
         started_at |-> now, completed_at |-> Some(now), errors |-> errors]

\* the size writer is skipped when the color writer raised
batch_insert_stop_on_error(products, insert_colors, insert_sizes, colorOk, sizeOk, now) ==
    LET color == IF insert_colors
                 THEN insert_tm9030color(products, tm9030color, now, colorOk)
                 ELSE Untouched(tm9030color)
        size == IF insert_sizes /\ color.raised = ""
                THEN insert_tm9035size(products, tm9035size, now, sizeOk)
                ELSE Untouched(tm9035size)
    IN  [color |-> color, size |-> size,
         batch_result |-> BatchResult(products, color, size, now)]

\* batch_insert: each writer runs in its own try; an exception becomes one
\* string of `errors`
batch_insert(products, insert_colors, insert_sizes, colorOk, sizeOk, now) ==
    LET color == IF insert_colors
                 THEN insert_tm9030color(products, tm9030color, now, colorOk)
                 ELSE Untouched(tm9030color)
        size == IF insert_sizes
                THEN insert_tm9035size(products, tm9035size, now, sizeOk)
                ELSE Untouched(tm9035size)
    IN  [color |-> color, size |-> size,
         batch_result |-> BatchResult(products, color, size, now)]

\* the call repeats the one before it
Repeats(op, products) ==
    insert.op = op /\ insert.products = products /\ insert.raised = ""

InsertColor(products, dbOk) ==
    /\ Idle
    /\ clock < MaxClock
    /\ \E w \in {insert_tm9030color(products, tm9030color, clock + 1, dbOk)} :
          /\ tm9030color' = w.table
          /\ insert' = [IdleInsert EXCEPT !.op = "insert_tm9030color",
                                          !.products = products, !.color = Outcome(w),
                                          !.raised = w.raised,
                                          !.repeat = Repeats("insert_tm9030color", products)]
    /\ clock' = clock + 1
    /\ UNCHANGED <<color_conversion_rules, size_conversion_rules, conversion_history,
                   call, batch, retrieved_data, tm9035size>>

InsertSize(products, dbOk) ==
    /\ Idle
    /\ clock < MaxClock
    /\ \E w \in {insert_tm9035size(products, tm9035size, clock + 1, dbOk)} :
          /\ tm9035size' = w.table
          /\ insert' = [IdleInsert EXCEPT !.op = "insert_tm9035size",
                                          !.products = products, !.size = Outcome(w),
                                          !.raised = w.raised,
                                          !.repeat = Repeats("insert_tm9035size", products)]
    /\ clock' = clock + 1
    /\ UNCHANGED <<color_conversion_rules, size_conversion_rules, conversion_history,
                   call, batch, retrieved_data, tm9030color>>

BatchInsert(products, insert_colors, insert_sizes, colorOk, sizeOk) ==
    /\ Idle
    /\ clock < MaxClock
    /\ \E b \in {batch_insert(products, insert_colors, insert_sizes, colorOk, sizeOk,
                              clock + 1)} :
          /\ tm9030color' = b.color.table
          /\ tm9035size' = b.size.table
          /\ insert' = [IdleInsert EXCEPT !.op = "batch_insert", !.products = products,
                                          !.insert_colors = insert_colors,
                                          !.insert_sizes = insert_sizes,
                                          !.color = Outcome(b.color),
                                          !.size = Outcome(b.size),
                                          !.batch_result = Some(b.batch_result),
                                          !.repeat = Repeats("batch_insert", products)]
    /\ clock' = clock + 1
    /\ UNCHANGED <<color_conversion_rules, size_conversion_rules, conversion_history,
                   call, batch, retrieved_data>>

NextInsert ==
    \/ \E products \in ProductLists, ok \in BOOLEAN : InsertColor(products, ok)
    \/ \E products \in ProductLists, ok \in BOOLEAN : InsertSize(products, ok)
    \/ \E products \in ProductLists, ic \in BOOLEAN, is \in BOOLEAN,
          cok \in BOOLEAN, sok \in BOOLEAN :
          BatchInsert(products, ic, is, cok, sok)

SpecInsert == Init /\ [][NextInsert]_vars

(***************************************************************************)
(* The pages, from retrieval to registration: the records are retrieved    *)
(* into st.session_state.retrieved_data, auto_convert_batch runs over the  *)
(* pending ones, and the registration page gives them to batch_insert.     *)
(***************************************************************************)
\* retrieved records: "P1" with nothing resolved and names "AB" that the rule
\* "ab" matches; "P2" with the color resolved already and names "bb" that no
\* rule matches
FlowRecords ==
    {[product_id |-> "P1", product_name |-> Some("n1"), color_name |-> Some(<<65, 66>>),
      size_name |-> Some(<<65, 66>>), color_id |-> None, size_id |-> None],
     [product_id |-> "P2", product_name |-> Some("n2"), color_name |-> Some(<<98, 98>>),
      size_name |-> Some(<<98, 98>>), color_id |-> Some(7), size_id |-> None]}

\* data_retrieval.py line 171: the retrieved products become retrieved_data
\* (a behaviour follows the records of one retrieval)
Retrieve(records) ==
    /\ Idle
    /\ retrieved_data = <<>>
    /\ retrieved_data' = records
    /\ UNCHANGED <<color_conversion_rules, size_conversion_rules, conversion_history,
                   call, batch, tm9030color, tm9035size, insert, clock>>

\* line 208: the records with color_id or size_id unset, in order
pending_df ==
    SelectSeq(retrieved_data, LAMBDA r : IsNone(r.color_id) \/ IsNone(r.size_id))

\* show_auto_conversion: the button runs auto_convert_batch over pending_df
AutoConvertStart(convert_colors, convert_sizes, confidence_threshold) ==
    /\ pending_df # <<>>
    /\ BatchStart(Len(pending_df), convert_colors, convert_sizes, confidence_threshold)

AutoConvertRecord(fails, colorRules, sizeRules) ==
    /\ batch.pc = "loop"
    /\ batch.i < batch.n
    /\ BatchRecord(pending_df[batch.i + 1], fails, colorRules, sizeRules)

\* the run has returned; st.session_state.conversion_results stays
AutoConvertReturn ==
    /\ batch.pc = "done"
    /\ batch' = [IdleBatch EXCEPT !.conversion_results = batch.conversion_results]
    /\ UNCHANGED <<color_conversion_rules, size_conversion_rules, conversion_history,
                   call, registration>>

\* the products show_registration_execution builds from retrieved_data that
\* have the id of the domain
Ready(domain) ==
    {i \in DOMAIN retrieved_data :
        ~IsNone(IF domain = "color" THEN retrieved_data[i].color_id
                ELSE retrieved_data[i].size_id)}

\* show_registration_execution: batch_insert over the products built from
\* retrieved_data; the button is disabled when nothing is ready to be written
Register(insert_colors, insert_sizes, colorOk, sizeOk) ==
    /\ retrieved_data # <<>>
    /\ (insert_colors /\ Ready("color") # {}) \/ (insert_sizes /\ Ready("size") # {})
    /\ BatchInsert(retrieved_data, insert_colors, insert_sizes, colorOk, sizeOk)

NextFlow ==
    \/ \E n \in 1..MaxRecords : \E records \in [1..n -> FlowRecords] : Retrieve(records)
    \/ \E s \in BatchRuleNames, t \in RuleTargets : AddColorRule(s, t[1], t[2], t[3], TRUE, TRUE, Len(color_conversion_rules) + 1)
    \/ \E s \in BatchRuleNames, t \in RuleTargets : AddSizeRule(s, t[1], t[2], t[3], TRUE, TRUE, Len(size_conversion_rules) + 1)
    \/ Return
    \/ \E cc \in BOOLEAN, cs \in BOOLEAN, th \in Thresholds : AutoConvertStart(cc, cs, th)
    \/ \E fails \in {"none"} \cup {Statements[k] : k \in 1..4},
          crules \in get_color_rules, srules \in get_size_rules :
          AutoConvertRecord(fails, crules, srules)
    \/ BatchFinish
    \/ AutoConvertReturn
    \/ \E ic \in BOOLEAN, is \in BOOLEAN, cok \in BOOLEAN, sok \in BOOLEAN :
          Register(ic, is, cok, sok)

SpecFlow == Init /\ [][NextFlow]_vars

(***************************************************************************)
(* The engine over rules of any confidence: rules are added with a         *)
(* confidence of 1.0 or above 1 and deactivated, and the matcher,           *)
(* convert_composite and auto_convert_batch (threshold 0.5, both ids unset,  *)
(* no storage failure) run on what is active.                               *)
(***************************************************************************)
\* the confidence given to add_*_rule: 1.0 and 1.5
EngineConfidences == {1000, 1500}

NextEngine ==
    \/ \E s \in BatchRuleNames, c \in EngineConfidences :
          AddColorRule(s, 1, "Red", c, TRUE, TRUE, Len(color_conversion_rules) + 1)
    \/ \E s \in BatchRuleNames, c \in EngineConfidences :
          AddSizeRule(s, 1, "Red", c, TRUE, TRUE, Len(size_conversion_rules) + 1)
    \/ \E id \in 1..MaxRules, ty \in {"color", "size"} : DeleteRule(id, ty, TRUE)
    \/ \E nm \in RecordNames, rules \in get_color_rules : ConvertColor(nm, TRUE, rules)
    \/ \E nm \in RecordNames, rules \in get_size_rules : ConvertSize(nm, TRUE, rules)
    \/ \E v \in CompositeValues, crules \in get_color_rules, srules \in get_size_rules :
          ConvertComposite(v, TRUE, crules, TRUE, srules)
    \/ Return
    \/ \E n \in 1..MaxRecords, cc \in BOOLEAN, cs \in BOOLEAN : BatchStart(n, cc, cs, 500)
    \/ \E row \in LiveRows, crules \in get_color_rules, srules \in get_size_rules :
          BatchRecord(row, "none", crules, srules)
    \/ BatchFinish
    \/ BatchReturn

SpecEngine == Init /\ [][NextEngine]_vars

(***************************************************************************)
(* DatabaseService.get_session, step by step, around one statement: the    *)
(* INSERT of add_color_rule, the INSERT of add_conversion_history or the    *)
(* upsert of insert_tm9030color.  call holds the session and the position   *)
(* in get_session: "body" (at the yield), "commit", "rollback", "close",    *)
(* "returned".  The work of the statement is pending in the session and     *)
(* reaches the table when the commit succeeds.                              *)
(***************************************************************************)
\* the tables, as a session finds them when it is opened
Tables ==
    [color_conversion_rules |-> color_conversion_rules,
     size_conversion_rules |-> size_conversion_rules,
     conversion_history |-> conversion_history,
     tm9030color |-> tm9030color, tm9035size |-> tm9035size]

\* the one-product lists given to insert_tm9030color here (color_id set)
SessionProducts == {<<p>> : p \in {q \in Products : ~IsNone(q.color_id)}}

\* a statement run in a session: its kind ("rule", "history", "upsert") and
\* the parameter of that kind (the others are left empty)
Statement(kind, source_name, product_id, products) ==
    [kind |-> kind, source_name |-> source_name, product_id |-> product_id,
     products |-> products]

SessionStatements ==
    {Statement("rule", s, 0, <<>>) : s \in AdminNames}
    \cup {Statement("history", <<>>, k, <<>>) : k \in 1..MaxRecords}
    \cup {Statement("upsert", <<>>, 0, products) : products \in SessionProducts}

\* the table a statement writes
TargetOf(statement) ==
    IF statement.kind = "rule" THEN "color_conversion_rules"
    ELSE IF statement.kind = "history" THEN "conversion_history"
    ELSE "tm9030color"

\* session.execute(statement): the target table with the statement applied,
\* or the exception of the store when it refuses the statement
Run(statement, now) ==
    IF statement.kind = "rule"
    THEN [table |-> Append(color_conversion_rules,
                           NewRule(color_conversion_rules, statement.source_name, 1, "Red", 1000)),
          raised |-> ""]
    ELSE IF statement.kind = "history"
    THEN [table |-> Append(conversion_history,
                           HistoryRow(statement.product_id, None, None, "auto", "failed", 0, None)),
          raised |-> ""]
    ELSE Execute("color", tm9030color,
                 _build_tm9030color_insert_query(statement.products, now))

\* session = Session() (lines 63-64)
NewSession(statement) ==
    [op |-> "get_session", pc |-> "body", statement |-> statement, before |-> Tables,
     pending |-> None, body |-> "", commit |-> "", committed |-> FALSE,
     rolled_back |-> FALSE, closed |-> FALSE, raised |-> ""]

\* a normal exit of the body closes the session without a commit
AfterBodyNoCommit(raised) == IF raised = "" THEN "close" ELSE "rollback"

\* lines 65-70: after the yield comes session.commit(); an exception of the
\* body goes to the except clause
AfterBody(raised) == IF raised = "" THEN "commit" ELSE "rollback"

\* with db_service.get_session(db_type) as session: the session is opened
\* and the body is entered
SessionOpen(statement) ==
    /\ Idle
    /\ statement.kind = "rule" => RuleCount < MaxRules
    /\ statement.kind = "history" => Len(conversion_history) < MaxHistory
    /\ statement.kind = "upsert" => clock < MaxClock
    /\ call' = NewSession(statement)
    /\ clock' = IF statement.kind = "upsert" THEN clock + 1 ELSE clock
    /\ UNCHANGED <<color_conversion_rules, size_conversion_rules, conversion_history,
                   batch, retrieved_data, tm9030color, tm9035size, insert>>

\* the body: session.execute(text(query), params).  executeOk: the store is
\* reachable; the statement itself may be refused (NOT NULL)
SessionBody(executeOk) ==
    /\ call.op = "get_session"
    /\ call.pc = "body"
    /\ \E done \in {Run(call.statement, clock)} :
       \E raised \in {IF ~executeOk THEN "OperationalError" ELSE done.raised} :
          call' = [call EXCEPT !.pending = IF raised = "" THEN Some(done.table) ELSE None,
                               !.body = raised,
                               !.raised = raised,
                               !.pc = AfterBody(raised)]
    /\ UNCHANGED <<color_conversion_rules, size_conversion_rules, conversion_history,
                   batch, registration>>

\* session.commit() (line 67): the pending work reaches the table, or the
\* commit raises and control goes to the except clause
SessionCommit(commitOk) ==
    /\ call.op = "get_session"
    /\ call.pc = "commit"
    /\ call' = IF commitOk
               THEN [call EXCEPT !.committed = TRUE, !.pending = None, !.pc = "close"]
               ELSE [call EXCEPT !.commit = "OperationalError",
                                 !.raised = "OperationalError", !.pc = "rollback"]
    /\ \E target \in {IF commitOk THEN TargetOf(call.statement) ELSE "none"} :
          /\ color_conversion_rules' =
                IF target = "color_conversion_rules" THEN Val(call.pending)
                ELSE color_conversion_rules
          /\ conversion_history' =
                IF target = "conversion_history" THEN Val(call.pending)
                ELSE conversion_history
          /\ tm9030color' =
                IF target = "tm9030color" THEN Val(call.pending) ELSE tm9030color
    /\ UNCHANGED <<size_conversion_rules, batch, retrieved_data, tm9035size, insert, clock>>

\* except Exception: session.rollback(); raise (lines 68-71): the pending
\* work is dropped and the exception goes on to the caller
SessionRollback ==
    /\ call.op = "get_session"
    /\ call.pc = "rollback"
    /\ call' = [call EXCEPT !.rolled_back = TRUE, !.pending = None, !.pc = "close"]
    /\ UNCHANGED <<color_conversion_rules, size_conversion_rules, conversion_history,
                   batch, registration>>

\* finally: session.close() (lines 72-73)
SessionClose ==
    /\ call.op = "get_session"
    /\ call.pc = "close"
    /\ call' = [call EXCEPT !.closed = TRUE, !.pc = "returned"]
    /\ UNCHANGED <<color_conversion_rules, size_conversion_rules, conversion_history,
                   batch, registration>>

\* the caller goes on after the with statement, or handles the exception
SessionReturn ==
    /\ call.op = "get_session"
    /\ call.pc = "returned"
    /\ call' = IdleCall
    /\ UNCHANGED <<color_conversion_rules, size_conversion_rules, conversion_history,
                   batch, registration>>

NextSession ==
    \/ \E statement \in SessionStatements : SessionOpen(statement)
    \/ \E executeOk \in BOOLEAN : SessionBody(executeOk)
    \/ \E commitOk \in BOOLEAN : SessionCommit(commitOk)
    \/ SessionRollback
    \/ SessionClose
    \/ SessionReturn

SpecSession == Init /\ [][NextSession]_vars

(***************************************************************************)
(* retry_on_failure(max_retries)(func), step by step.  call holds the      *)
(* wrapper's locals: attempt (the loop variable), last_exception, and the   *)
(* outcomes of the invocations of func made so far.                         *)
(***************************************************************************)
\* the largest max_retries given to the decorator
MaxRetries == 4

\* what one invocation of func does: it returns a value or raises
FuncOutcomes ==
    {[raised |-> "", value |-> 1], [raised |-> "", value |-> 2],
     [raised |-> "DatabaseError", value |-> 0], [raised |-> "ConversionError", value |-> 0]}

\* the exception of the first failed attempt is kept
RememberFirst(last_exception, e) == IF last_exception = None THEN Some(e) ELSE last_exception

\* except Exception as e: last_exception = e (lines 221-222)
Remember(last_exception, e) == Some(e)

\* wrapper(*args, **kwargs) is called: last_exception = None, the loop starts
RetryStart(max_retries) ==
    /\ Idle
    /\ call' = [op |-> "retry_on_failure", pc |-> "loop", max_retries |-> max_retries,
                attempt |-> 0, outcomes |-> <<>>, last_exception |-> None,
                out |-> None, raised |-> ""]
    /\ UNCHANGED <<color_conversion_rules, size_conversion_rules, conversion_history,
                   batch, registration>>

\* one iteration of for attempt in range(max_retries): return func(...), or
\* the except clause keeps the exception and the loop goes on
RetryAttempt(outcome) ==
    /\ call.op = "retry_on_failure"
    /\ call.pc = "loop"
    /\ call.attempt < call.max_retries
    /\ call' = IF outcome.raised = ""
               THEN [call EXCEPT !.outcomes = Append(@, outcome),
                                 !.out = Some(outcome.value), !.pc = "returned"]
               ELSE [call EXCEPT !.outcomes = Append(@, outcome),
                                 !.last_exception = Remember(@, outcome.raised),
                                 !.attempt = @ + 1]
    /\ UNCHANGED <<color_conversion_rules, size_conversion_rules, conversion_history,
                   batch, registration>>

\* the loop is over: raise last_exception (line 231).  With max_retries = 0
\* no attempt was made, last_exception is None and the raise statement
\* itself raises TypeError.
RetryExhausted ==
    /\ call.op = "retry_on_failure"
    /\ call.pc = "loop"
    /\ call.attempt >= call.max_retries
    /\ call' = [call EXCEPT !.raised = IF call.last_exception = None THEN "TypeError"
                                       ELSE Val(call.last_exception),
                            !.pc = "returned"]
    /\ UNCHANGED <<color_conversion_rules, size_conversion_rules, conversion_history,
                   batch, registration>>

\* the caller has the value or the exception
RetryReturn ==
    /\ call.op = "retry_on_failure"
    /\ call.pc = "returned"
    /\ call' = IdleCall
    /\ UNCHANGED <<color_conversion_rules, size_conversion_rules, conversion_history,
                   batch, registration>>

NextRetry ==
    \/ \E max_retries \in 0..MaxRetries : RetryStart(max_retries)
    \/ \E outcome \in FuncOutcomes : RetryAttempt(outcome)
    \/ RetryExhausted
    \/ RetryReturn

SpecRetry == Init /\ [][NextRetry]_vars

(***************************************************************************)
(* Properties of the matcher.  They are stated on the outcomes of the      *)
(* matcher calls of the last service call: call.color (convert_color) and  *)
(* call.size (convert_size), made directly or by convert_composite.        *)
(***************************************************************************)
MatcherOutcomes == {call.color, call.size}

\* the outcomes of matcher calls that obtained a rule list for a non-empty name
Matched == {o \in MatcherOutcomes : o.invoked /\ Truthy(o.name) /\ ~IsNone(o.rules)}

ExactRules(o) ==
    {i \in 1..Len(Val(o.rules)) :
        lower(Val(o.rules)[i].source_name) = lower(Val(o.name))}

SubstringRules(o) ==
    {i \in 1..Len(Val(o.rules)) :
        \/ Contains(lower(Val(o.name)), lower(Val(o.rules)[i].source_name))
        \/ Contains(lower(Val(o.rules)[i].source_name), lower(Val(o.name)))}

\* C1: when some rule of the list the matcher obtained equals the name
\* case-insensitively, the matcher returns the target id, target name and
\* stored confidence of the first such rule of the list, whether or not an
\* earlier rule of the list has a substring relation to the name.
C1_ExactMatchFirst ==
    \A o \in Matched :
        ExactRules(o) # {} =>
            LET rule == Val(o.rules)[Min(ExactRules(o))]
            IN  /\ o.raised = ""
                /\ o.result = Some(<<rule.target_id, rule.target_name, rule.confidence>>)

\* a call whose list starts with a rule that is only a substring of the name
\* and holds the exact rule second; the exact rule's target is returned
C1_Witness ==
    /\ call.op = "convert_color"
    /\ call.color \in Matched
    /\ Len(Val(call.color.rules)) = 2
    /\ ExactRules(call.color) = {2}
    /\ 1 \in SubstringRules(call.color)
    /\ Val(call.color.rules)[1].target_id # Val(call.color.rules)[2].target_id
    /\ Val(call.color.result)[1] = Val(call.color.rules)[2].target_id

\* C2: when no rule of the list equals the name case-insensitively and some
\* rule contains the name or is contained in it (case-insensitively), the
\* matcher returns the target of the first such rule of the list with 0.8
\* times its confidence.
C2_SubstringPenalty ==
    \A o \in Matched :
        (ExactRules(o) = {} /\ SubstringRules(o) # {}) =>
            LET rule == Val(o.rules)[Min(SubstringRules(o))]
            IN  /\ o.raised = ""
                /\ ~IsNone(o.result)
                /\ Val(o.result)[1] = rule.target_id
                /\ Val(o.result)[2] = rule.target_name
                /\ 10 * Val(o.result)[3] = 8 * rule.confidence

\* convert_size resolved a name that only contains the source name of the
\* second rule of its list (the first rule is unrelated)
C2_Witness ==
    /\ call.op = "convert_size"
    /\ call.size \in Matched
    /\ ExactRules(call.size) = {}
    /\ SubstringRules(call.size) = {2}
    /\ Len(Val(call.size.rules)[2].source_name) < Len(Val(call.size.name))
    /\ Val(call.size.result)[3] = 800

\* C3: the matcher returns None without raising when the name is None or
\* empty, and then it does not consult the rule store (so it returns None even
\* while the store is unreachable); it also returns None without raising when
\* no rule of the list it obtained has an exact or substring relation to the
\* name.
C3_NoMatchIsNone ==
    \A o \in MatcherOutcomes :
        o.invoked =>
            /\ ~Truthy(o.name) => (IsNone(o.result) /\ o.raised = "" /\ ~o.consulted)
            /\ (o \in Matched /\ ExactRules(o) = {} /\ SubstringRules(o) = {})
                  => (IsNone(o.result) /\ o.raised = "")

\* convert_color found no rule related to the name in a non-empty list
C3_Witness ==
    /\ call.op = "convert_color"
    /\ call.color \in Matched
    /\ Len(Val(call.color.rules)) > 0
    /\ ExactRules(call.color) = {}
    /\ SubstringRules(call.color) = {}
    /\ IsNone(call.color.result)

\* convert_color was called with an empty name while rules are stored
C3_WitnessEmpty ==
    /\ call.op = "convert_color"
    /\ call.color.invoked
    /\ call.color.name = Some(<<>>)
    /\ Len(color_conversion_rules) > 0
    /\ IsNone(call.color.result)

\* the active row of `table` that equals `name` case-insensitively and comes
\* first by source_name ascending, then by insertion (id ascending)
EqualRows(table, name) ==
    {i \in 1..Len(table) :
        table[i].is_active /\ lower(table[i].source_name) = lower(name)}

FirstInserted(table, name) ==
    table[CHOOSE i \in EqualRows(table, name) :
            \A j \in EqualRows(table, name) :
                \/ StrLess(table[i].source_name, table[j].source_name)
                \/ (table[i].source_name = table[j].source_name /\ i <= j)]

ReturnsFirstInserted(o, table) ==
    (o \in Matched /\ EqualRows(table, Val(o.name)) # {}) =>
        /\ ~IsNone(o.result)
        /\ Val(o.result)[1] = FirstInserted(table, Val(o.name)).target_id

Occurs(c, s) == \E i \in 1..Len(s) : s[i] = c

\* t is s without its leading and trailing whitespace
IsStripOf(t, s) ==
    \E a, b \in 0..Len(s) :
        /\ a + b <= Len(s)
        /\ t = SubSeq(s, a + 1, Len(s) - b)
        /\ \A i \in 1..a : s[i] \in Whitespace
        /\ \A i \in (Len(s) - b + 1)..Len(s) : s[i] \in Whitespace
        /\ t # <<>> => (t[1] \notin Whitespace /\ t[Len(t)] \notin Whitespace)

\* the pair is s cut at position i, both parts trimmed
IsSplitAt(pair, s, i) ==
    /\ ~IsNone(pair[1]) /\ IsStripOf(Val(pair[1]), SubSeq(s, 1, i - 1))
    /\ ~IsNone(pair[2]) /\ IsStripOf(Val(pair[2]), SubSeq(s, i + 1, Len(s)))

\* C5: _parse_composite_value splits at the first occurrence of the separator
\* that comes first in the order "/", "-", "_", " " among those present,
\* wherever the other separators stand; it returns two parts, the right one
\* keeping every later separator, both trimmed.
C5_DelimiterPriority ==
    call.op = "_parse_composite_value" =>
        LET v == Val(call.arg)
            parts == Val(call.parts)
        IN  \A c \in {47, 45, 95, 32} :
                (/\ Occurs(c, v)
                 /\ c = 45 => ~Occurs(47, v)
                 /\ c = 95 => (~Occurs(47, v) /\ ~Occurs(45, v))
                 /\ c = 32 => (~Occurs(47, v) /\ ~Occurs(45, v) /\ ~Occurs(95, v)))
                => \E i \in 1..Len(v) :
                      /\ v[i] = c
                      /\ \A j \in 1..(i - 1) : v[j] # c
                      /\ Len(parts) = 2
                      /\ IsSplitAt(parts, v, i)

\* "a-/a" is split at its "/" although "-" stands before it: ("a-", "a")
C5_Witness ==
    /\ call.op = "_parse_composite_value"
    /\ call.arg = Some(<<97, 45, 47, 97>>)
    /\ call.parts = Some(<<Some(<<97, 45>>), Some(<<97>>)>>)

\* "/a/ " keeps its second "/" in the right part, trimmed: ("", "a/")
C5_WitnessLater ==
    /\ call.op = "_parse_composite_value"
    /\ call.arg = Some(<<47, 97, 47, 32>>)
    /\ call.parts = Some(<<Some(<<>>), Some(<<97, 47>>)>>)

NoSeparator(v) == \A c \in {47, 45, 95, 32} : ~Occurs(c, v)

\* C6: for a composite value without "/", "-", "_" and " ",
\* _parse_composite_value returns (value trimmed, None), and convert_composite
\* does not invoke the size matcher and returns no size id.
C6_NoDelimiterIsColorOnly ==
    (call.op = "convert_composite" /\ ~IsNone(call.parts) /\ NoSeparator(Val(call.arg))) =>
        /\ ~IsNone(Val(call.parts)[1])
        /\ IsStripOf(Val(Val(call.parts)[1]), Val(call.arg))
        /\ IsNone(Val(call.parts)[2])
        /\ ~call.size.invoked
        /\ ~IsNone(call.out) => IsNone(Val(call.out)[2])

\* convert_composite("\ta") while the size rules hold "a": the color matcher
\* is asked for "a", the size matcher is not asked
C6_Witness ==
    /\ call.op = "convert_composite"
    /\ call.arg = Some(<<9, 97>>)
    /\ call.parts = Some(<<Some(<<97>>), None>>)
    /\ call.color.invoked
    /\ \E i \in 1..Len(size_conversion_rules) :
          /\ size_conversion_rules[i].is_active
          /\ size_conversion_rules[i].source_name = <<97>>
    /\ ~IsNone(call.out)

IdOf(o) == IF IsNone(o.result) THEN None ELSE Some(Val(o.result)[1])

\* C7: convert_composite returns the ids the matcher returned for the two
\* parts and the confidence (color + size) / 2 when both resolve, half the
\* confidence of the one that resolves when only one does, and 0.0 with no
\* id when none does or the value is empty.
C7_CompositeConfidence ==
    (call.op = "convert_composite" /\ call.raised = "") =>
        /\ ~IsNone(call.out)
        /\ LET out == Val(call.out)
               c == call.color.result
               z == call.size.result
           IN  /\ out[1] = IdOf(call.color)
               /\ out[2] = IdOf(call.size)
               /\ (~IsNone(c) /\ ~IsNone(z)) => 2 * out[3] = Val(c)[3] + Val(z)[3]
               /\ (~IsNone(c) /\ IsNone(z)) => 2 * out[3] = Val(c)[3]
               /\ (IsNone(c) /\ ~IsNone(z)) => 2 * out[3] = Val(z)[3]
               /\ (IsNone(c) /\ IsNone(z)) => out = <<None, None, 0>>
               /\ ~Truthy(call.arg) => out = <<None, None, 0>>

\* both parts resolve, the color by substring (0.8) and the size exactly with
\* confidence 0.5: the result is (0.8 + 0.5) / 2
C7_Witness ==
    /\ call.op = "convert_composite"
    /\ ~IsNone(call.out)
    /\ ~IsNone(call.color.result) /\ Val(call.color.result)[3] = 800
    /\ ~IsNone(call.size.result) /\ Val(call.size.result)[3] = 500
    /\ Val(call.out)[3] = 650

\* only the size part resolves ("/a"): half its confidence, no color id
C7_WitnessSizeOnly ==
    /\ call.op = "convert_composite"
    /\ ~IsNone(call.out)
    /\ IsNone(call.color.result)
    /\ ~IsNone(call.size.result) /\ Val(call.size.result)[3] = 1000
    /\ Val(call.out) = <<None, Some(Val(call.size.result)[1]), 500>>

(***************************************************************************)
(* Properties of the batch orchestrator.  After an iteration of the loop,  *)
(* call.color and call.size are the matcher calls of that iteration; when  *)
(* neither raised, the iteration appended its result to batch.results.     *)
(***************************************************************************)
\* the last iteration built a result and appended it to `results`
Appended ==
    /\ batch.pc = "loop"
    /\ call.op = "auto_convert_batch"
    /\ call.color.raised = "" /\ call.size.raised = ""

LastResult == batch.results[Len(batch.results)]

\* the confidences the matchers computed and resolved in the last iteration
ResolvedConfidences ==
    {Val(o.result)[3] : o \in {x \in {call.color, call.size} : ~IsNone(x.result)}}

\* C8: the confidence of a record's result is the largest of the color and
\* size confidences that the matchers resolved for it, 0.0 when none was
\* resolved, and its ids are those the matchers returned (None where nothing
\* was resolved or computed).
C8_BatchConfidenceIsMax ==
    Appended =>
        /\ LastResult.product_id = batch.i
        /\ LastResult.confidence =
              IF ResolvedConfidences = {} THEN 0 ELSE Max(ResolvedConfidences)
        /\ LastResult.converted_color_id = IdOf(call.color)
        /\ LastResult.converted_size_id = IdOf(call.size)

\* the color resolves exactly with confidence 1.0, the size matcher is asked
\* and finds nothing: confidence 1.0, color id set, size id None, success at 0.5
C8_Witness ==
    /\ Appended
    /\ batch.confidence_threshold = 500
    /\ ~IsNone(call.color.result) /\ Val(call.color.result)[3] = 1000
    /\ call.size.invoked /\ call.size.consulted /\ IsNone(call.size.result)
    /\ LastResult.confidence = 1000
    /\ LastResult.converted_color_id = Some(Val(call.color.result)[1])
    /\ IsNone(LastResult.converted_size_id)
    /\ LastResult.status = "success"

\* both resolve, the color with 0.8 and the size with 0.5: the result has 0.8,
\* not the composite average 0.65
C8_WitnessBoth ==
    /\ Appended
    /\ ~IsNone(call.color.result) /\ Val(call.color.result)[3] = 800
    /\ ~IsNone(call.size.result) /\ Val(call.size.result)[3] = 500
    /\ LastResult.confidence = 800

\* C9: a result is "success" exactly when its confidence is at least the
\* threshold of the run (equal counts as success); otherwise it is "failed"
\* and carries the insufficient-confidence message.
C9_StatusByThreshold ==
    batch.pc # "idle" =>
        \A k \in 1..Len(batch.results) :
            LET r == batch.results[k]
            IN  /\ r.status \in {"success", "failed"}
                /\ r.status = "success" <=> r.confidence >= batch.confidence_threshold
                /\ r.status = "failed" <=> r.error_message = Some("insufficient confidence")

\* a result whose confidence 0.5 equals the threshold 0.5 is a success
C9_Witness ==
    /\ Appended
    /\ batch.confidence_threshold = 500
    /\ LastResult.confidence = 500
    /\ LastResult.status = "success"
    /\ IsNone(LastResult.error_message)

\* a result with confidence 0.4 under the threshold 0.5 is failed
C9_WitnessBelow ==
    /\ Appended
    /\ batch.confidence_threshold = 500
    /\ LastResult.confidence = 400
    /\ LastResult.status = "failed"
    /\ LastResult.error_message = Some("insufficient confidence")

\* the rows of conversion_history appended since the run started
AppendedHistory ==
    SubSeq(conversion_history, batch.history0 + 1, Len(conversion_history))

\* C10: when a batch run over n records has returned, it has appended exactly
\* n history rows, one for each record, and it returns as many results as it
\* appended history rows.
C10_OneHistoryRowPerRecord ==
    batch.pc = "done" =>
        /\ Len(AppendedHistory) = batch.n
        /\ \A k \in 1..batch.n :
              Cardinality({j \in 1..Len(AppendedHistory) :
                              AppendedHistory[j].product_id = k}) = 1
        /\ Len(batch.conversion_results) = Len(AppendedHistory)

\* the same, for the runs in which no iteration ended in the except clause
C10_WhenNothingRaised ==
    (batch.pc = "done" /\ batch.raised = {}) =>
        /\ Len(AppendedHistory) = batch.n
        /\ \A k \in 1..batch.n :
              Cardinality({j \in 1..Len(AppendedHistory) :
                              AppendedHistory[j].product_id = k}) = 1
        /\ Len(batch.conversion_results) = Len(AppendedHistory)

\* the entries of `seq` (results or history rows) that belong to record k
EntriesOf(seq, k) == {j \in 1..Len(seq) : seq[j].product_id = k}

\* C11: when a batch run over n records has returned, it holds a result and a
\* history row for each of the n records, and every record whose processing
\* raised has exactly one result and one history row, with status "failed".
C11_FailedEntryForThrowingRecord ==
    batch.pc = "done" =>
        /\ Len(batch.conversion_results) = batch.n
        /\ Len(AppendedHistory) = batch.n
        /\ \A k \in batch.raised :
              /\ Cardinality(EntriesOf(batch.conversion_results, k)) = 1
              /\ Cardinality(EntriesOf(AppendedHistory, k)) = 1
              /\ \A j \in EntriesOf(batch.conversion_results, k) :
                    batch.conversion_results[j].status = "failed"
              /\ \A j \in EntriesOf(AppendedHistory, k) :
                    AppendedHistory[j].status = "failed"

\* the last iteration built a result, appended it and stored its history row
Recorded == Appended /\ call.raised = ""

LastHistory == conversion_history[Len(conversion_history)]

\* both matchers were asked for the record of the last iteration, fetched
\* the rules and matched none: neither field was resolved
NothingResolved ==
    /\ call.color.consulted /\ IsNone(call.color.result)
    /\ call.size.consulted /\ IsNone(call.size.result)

\* C13: at every threshold, a record for which neither the color nor the size
\* was resolved has status "failed" in its result and in its history row.
C13_UnmatchedIsFailed ==
    (Recorded /\ NothingResolved) =>
        /\ LastResult.status = "failed"
        /\ LastHistory.product_id = LastResult.product_id
        /\ LastHistory.status = "failed"

\* the same, for the thresholds above 0.0
C13_UnmatchedIsFailedAboveZero ==
    (Recorded /\ NothingResolved /\ batch.confidence_threshold > 0) =>
        /\ LastResult.status = "failed"
        /\ LastHistory.product_id = LastResult.product_id
        /\ LastHistory.status = "failed"

\* the results are in input order, and every record processed so far either
\* has its result or ended in the except clause
InInputOrder ==
    /\ \A j \in 1..Len(batch.results) :
          /\ batch.results[j].product_id \in 1..batch.i
          /\ \A l \in 1..(j - 1) :
                batch.results[l].product_id < batch.results[j].product_id
    /\ batch.raised \subseteq 1..batch.i
    /\ \A k \in 1..batch.i :
          k \in batch.raised \/ EntriesOf(batch.results, k) # {}

\* C12: an exception in one record neither leaves the batch run nor stops
\* it: while records are left, every step of the run processes the next
\* record, whether or not it raised; records are processed in input order;
\* the run leaves the loop only after the last record; and a started run
\* always returns.
C12_FailureDoesNotStopBatch ==
    /\ [][(batch.pc = "loop" /\ batch.i < batch.n) =>
             (batch'.pc = "loop" /\ batch'.n = batch.n /\ batch'.i = batch.i + 1)]_vars
    /\ [][(batch.pc = "loop" /\ batch'.pc # "loop") =>
             (batch.i = batch.n /\ batch'.pc = "done")]_vars
    /\ [](batch.pc # "idle" => InInputOrder)
    /\ (batch.pc = "loop") ~> (batch.pc = "done" /\ batch.i = batch.n)

\* a returned run over two records whose first record raised in the matcher
\* and whose second record has its result
C12_Witness ==
    /\ batch.pc = "done"
    /\ batch.n = 2
    /\ 1 \in batch.raised
    /\ EntriesOf(batch.conversion_results, 1) = {}
    /\ EntriesOf(batch.conversion_results, 2) # {}

(***************************************************************************)
(* Properties of the writers.  A step with clock' = clock + 1 is a call of *)
(* InsertService; insert' tells what the call did, and the unprimed and    *)
(* primed tables are the tables before and after it.                       *)
(***************************************************************************)
IdField(domain, r) == IF domain = "color" THEN r.color_id ELSE r.size_id

NameField(domain, r) == IF domain = "color" THEN r.color_name ELSE r.size_name

\* the positions of the products a writer has to write, and the others
WithId(domain, products) ==
    {i \in 1..Len(products) : ~IsNone(IdField(domain, products[i]))}

WithoutId(domain, products) ==
    {i \in 1..Len(products) : IsNone(IdField(domain, products[i]))}

ProductIds(rows, positions) == {rows[i].product_id : i \in positions}

\* what a writer call w over `products` did to its table
SkipsNullIds(domain, products, w, before, after) ==
    /\ WithId(domain, products) = {} =>
          /\ ~w.executed
          /\ w.raised = ""
          /\ w.result = Some(WriterResult(0, Len(products)))
          /\ after = before
    /\ w.raised = "" =>
          /\ Val(w.result).success
          /\ Val(w.result).skipped_count = Cardinality(WithoutId(domain, products))
          /\ Val(w.result).inserted_count = Cardinality(WithId(domain, products))
          /\ ProductIds(after, DOMAIN after) =
                ProductIds(before, DOMAIN before)
                   \cup ProductIds(products, WithId(domain, products))
          /\ \A i \in DOMAIN before :
                before[i].product_id \notin ProductIds(products, WithId(domain, products))
                   => after[i] = before[i]

\* C15: a writer writes rows only for the products whose id is not None: it
\* counts every other product in skipped_count without raising, stores
\* nothing for a product_id that only products without an id carry, and with
\* no product to write it returns inserted_count 0 and executes no statement.
C15_OnlyNonNullIdsWritten ==
    [][clock' = clock + 1 =>
          /\ insert'.color.called =>
                SkipsNullIds("color", insert'.products, insert'.color,
                             tm9030color, tm9030color')
          /\ insert'.size.called =>
                SkipsNullIds("size", insert'.products, insert'.size,
                             tm9035size, tm9035size')]_vars

\* insert_tm9030color over a product with a color_id and a product of
\* another product_id without one: one written, one skipped, and no row of
\* the skipped product
C15_Witness ==
    /\ insert.op = "insert_tm9030color"
    /\ Len(insert.products) = 2
    /\ ~IsNone(insert.products[1].color_id) /\ insert.products[1].product_id = "P1"
    /\ IsNone(insert.products[2].color_id) /\ insert.products[2].product_id = "P2"
    /\ insert.color.result = Some(WriterResult(1, 1))
    /\ ProductIds(tm9030color, DOMAIN tm9030color) = {"P1"}

\* insert_tm9035size over products none of which has a size_id
C15_WitnessNothingToWrite ==
    /\ insert.op = "insert_tm9035size"
    /\ Len(insert.products) = 1
    /\ ~insert.size.executed
    /\ insert.size.result = Some(WriterResult(0, 1))

\* the last product of `products` that the writer writes under product_id
LastWritten(domain, products, product_id) ==
    products[Max({i \in WithId(domain, products) : products[i].product_id = product_id})]

\* the stored row has the values of the product
ValuesOf(domain, row, product) ==
    /\ row.product_id = product.product_id
    /\ row.product_name = product.product_name
    /\ NameField(domain, row) = OrEmpty(NameField(domain, product))
    /\ IdField(domain, row) = IdField(domain, product)

NoDuplicates(table) ==
    \A i, j \in DOMAIN table : table[i].product_id = table[j].product_id => i = j

\* C16: a second call of insert_tm9030color with the products of the call
\* before it leaves the table as the first call left it, but for updated_at:
\* the same rows in the same places, one row per product_id, each written row
\* with the values of the input, and created_at as the first call set it.
C16_SecondWriteChangesNothing ==
    [][(clock' = clock + 1 /\ insert'.op = "insert_tm9030color" /\ insert'.repeat
          /\ insert'.raised = "") =>
          /\ Len(tm9030color') = Len(tm9030color)
          /\ \A i \in DOMAIN tm9030color :
                tm9030color'[i] =
                   [tm9030color[i] EXCEPT !.updated_at = tm9030color'[i].updated_at]
          /\ NoDuplicates(tm9030color')
          /\ \A i \in DOMAIN tm9030color' :
                tm9030color'[i].product_id
                      \in ProductIds(insert'.products, WithId("color", insert'.products))
                   => ValuesOf("color", tm9030color'[i],
                               LastWritten("color", insert'.products,
                                           tm9030color'[i].product_id))]_vars

\* the second of two equal calls that wrote a row: the row was created by
\* the first call and updated by the second
C16_Witness ==
    /\ insert.op = "insert_tm9030color"
    /\ insert.repeat
    /\ insert.color.executed /\ insert.raised = ""
    /\ Len(tm9030color) = 1
    /\ tm9030color[1].created_at = 1
    /\ tm9030color[1].updated_at = 2

\* what a successful statement of a writer did to the rows stored before it
LastWriteWins(domain, products, before, after, now) ==
    /\ Len(after) >= Len(before)
    /\ \A i \in DOMAIN before :
          IF before[i].product_id \in ProductIds(products, WithId(domain, products))
          THEN /\ ValuesOf(domain, after[i],
                           LastWritten(domain, products, before[i].product_id))
               /\ after[i].updated_at = now
               /\ after[i].created_at = before[i].created_at
          ELSE after[i] = before[i]

\* C17: a write that meets a stored row of the same product_id replaces its
\* product_name, its color_name / size_name, its id and its updated_at by the
\* values of the input (of the last product with that product_id), keeps its
\* created_at, and leaves the rows of every other product_id as they were.
C17_ConflictOverwritesButCreatedAt ==
    [][clock' = clock + 1 =>
          /\ (insert'.color.executed /\ insert'.color.raised = "") =>
                LastWriteWins("color", insert'.products, tm9030color, tm9030color',
                              clock')
          /\ (insert'.size.executed /\ insert'.size.raised = "") =>
                LastWriteWins("size", insert'.products, tm9035size, tm9035size',
                              clock')]_vars

\* two rows were stored by the first call; the second call wrote "P1" again
\* with other values: its row has them and the new updated_at, its created_at
\* and the row of "P2" are those of the first call
C17_Witness ==
    /\ insert.op = "insert_tm9030color"
    /\ insert.color.executed /\ insert.raised = ""
    /\ Len(insert.products) = 1
    /\ insert.products[1].product_name = Some("n2")
    /\ Len(tm9030color) = 2
    /\ tm9030color[1] = [product_id |-> "P1", product_name |-> Some("n2"),
                         color_name |-> <<>>, color_id |-> Some(2),
                         created_at |-> 1, updated_at |-> 2]
    /\ tm9030color[2].product_id = "P2"
    /\ tm9030color[2].created_at = 1 /\ tm9030color[2].updated_at = 1

\* the writers of the last batch_insert that raised
Raised == {w \in {"color", "size"} :
              (IF w = "color" THEN insert.color ELSE insert.size).raised # ""}

\* C18: in batch_insert each requested writer is called whatever the other
\* did, and its result is stored; every writer that raised adds one string
\* to errors; success is true exactly when errors is empty; completed_at is
\* set; and batch_insert does not raise.
C18_WritersAreIndependent ==
    insert.op = "batch_insert" =>
        /\ insert.raised = ""
        /\ ~IsNone(insert.batch_result)
        /\ insert.color.called = insert.insert_colors
        /\ insert.size.called = insert.insert_sizes
        /\ Val(insert.batch_result).color_result = insert.color.result
        /\ Val(insert.batch_result).size_result = insert.size.result
        /\ Len(Val(insert.batch_result).errors) = Cardinality(Raised)
        /\ Val(insert.batch_result).success <=> Val(insert.batch_result).errors = <<>>
        /\ ~IsNone(Val(insert.batch_result).completed_at)

\* the color writer raised and the size writer wrote its row
C18_Witness ==
    /\ insert.op = "batch_insert"
    /\ insert.color.raised = "DatabaseError"
    /\ insert.size.executed /\ insert.size.raised = ""
    /\ Val(insert.batch_result).size_result = Some(WriterResult(1, 0))
    /\ IsNone(Val(insert.batch_result).color_result)
    /\ Val(insert.batch_result).errors = <<"color">>
    /\ ~Val(insert.batch_result).success
    /\ Len(tm9035size) = 1

\* the size writer raised and the color writer wrote its row
C18_WitnessSizeRaised ==
    /\ insert.op = "batch_insert"
    /\ insert.size.raised = "DatabaseError"
    /\ insert.color.executed /\ insert.color.raised = ""
    /\ Val(insert.batch_result).errors = <<"size">>
    /\ Len(tm9030color) = 1

\* C19: a writer call that fails stores and updates nothing: its table is
\* as it was before the call, and the exception is a DatabaseError.
C19_FailedWriteStoresNothing ==
    [][clock' = clock + 1 =>
          /\ (insert'.color.called /\ insert'.color.raised # "") =>
                /\ tm9030color' = tm9030color
                /\ insert'.color.raised = "DatabaseError"
          /\ (insert'.size.called /\ insert'.size.raised # "") =>
                /\ tm9035size' = tm9035size
                /\ insert'.size.raised = "DatabaseError"]_vars

\* insert_tm9030color over a product that can be written and a product of
\* another product_id whose product_name is None: DatabaseError, and the
\* first product is not stored either
C19_Witness ==
    /\ insert.op = "insert_tm9030color"
    /\ insert.raised = "DatabaseError"
    /\ Len(insert.products) = 2
    /\ insert.products[1].product_id = "P1"
    /\ insert.products[2].product_id = "P2"
    /\ ~IsNone(insert.products[2].color_id) /\ IsNone(insert.products[2].product_name)
    /\ tm9030color = <<>>

(***************************************************************************)
(* Properties of the rule store, on the rule lists the matcher calls of    *)
(* the last service call obtained.                                         *)
(***************************************************************************)
ActiveRows(table) == {i \in DOMAIN table : table[i].is_active}

\* the rule matches the name, exactly or as a substring in either direction
Matches(rule, name) ==
    \/ lower(rule.source_name) = lower(name)
    \/ Contains(lower(name), lower(rule.source_name))
    \/ Contains(lower(rule.source_name), lower(name))

\* the list the matcher call o obtained holds each active row of `table`
\* once and nothing else, ascending in source_name; what it matched is an
\* active row of `table`
ListsActiveRules(o, table) ==
    ~IsNone(o.rules) =>
        /\ Len(Val(o.rules)) = Cardinality(ActiveRows(table))
        /\ \A i \in ActiveRows(table) :
              \E k \in DOMAIN Val(o.rules) : Val(o.rules)[k] = ConversionRule(table[i])
        /\ \A k \in DOMAIN Val(o.rules) :
              \E i \in ActiveRows(table) : Val(o.rules)[k] = ConversionRule(table[i])
        /\ \A k \in 1..(Len(Val(o.rules)) - 1) :
              ~StrLess(Val(o.rules)[k + 1].source_name, Val(o.rules)[k].source_name)
        /\ ~IsNone(o.result) =>
              \E i \in ActiveRows(table) :
                 /\ Matches(table[i], Val(o.name))
                 /\ Val(o.result)[1] = table[i].target_id
                 /\ Val(o.result)[2] = table[i].target_name

\* C20: get_color_rules (get_size_rules) returns exactly the active rows of
\* the color (size) rule table, ascending in source_name; a row deactivated
\* by delete_rule is not in the list and is not what convert_color
\* (convert_size) matches, and no row of the other table is.
C20_OnlyActiveRulesOfTheDomain ==
    /\ ListsActiveRules(call.color, color_conversion_rules)
    /\ ListsActiveRules(call.size, size_conversion_rules)

\* the only color rule, "a", was deactivated: convert_color("a") obtains the
\* empty list and returns None
C20_Witness ==
    /\ call.op = "convert_color"
    /\ call.arg = Some(<<97>>)
    /\ Len(color_conversion_rules) = 1
    /\ color_conversion_rules[1].source_name = <<97>>
    /\ ~color_conversion_rules[1].is_active
    /\ call.color.rules = Some(<<>>)
    /\ IsNone(call.color.result)

\* an active size rule "a" and no color rule: convert_color("a") returns None
C20_WitnessOtherDomain ==
    /\ call.op = "convert_color"
    /\ call.arg = Some(<<97>>)
    /\ color_conversion_rules = <<>>
    /\ Len(size_conversion_rules) = 1
    /\ size_conversion_rules[1].source_name = <<97>> /\ size_conversion_rules[1].is_active
    /\ IsNone(call.color.result)

\* two active rules and a list of two in ascending order: "A" before "a"
C20_WitnessSorted ==
    /\ call.color.consulted
    /\ ~IsNone(call.color.rules)
    /\ Len(Val(call.color.rules)) = 2
    /\ Val(call.color.rules)[1].source_name = <<65>>
    /\ Val(call.color.rules)[2].source_name = <<97>>
    /\ Val(call.color.rules)[1].id = 2

(***************************************************************************)
(* Properties of the flow from conversion to registration.                 *)
(***************************************************************************)
\* the record of pending_df that the result belongs to (the product_id of a
\* result is the position of its record in pending_df)
RecordOf(result) == pending_df[result.product_id]

\* the row of the table stored for the record
RowsOf(table, record) == {i \in DOMAIN table : table[i].product_id = record.product_id}

\* C14: after a batch run has resolved a color (size) id for a record whose
\* color_id (size_id) was unset, the caller's record carries that id; and a
\* batch_insert over the caller's records after the run writes the record
\* into tm9030color (tm9035size) with that id.
C14_ResolvedIdReachesTheRecord ==
    /\ batch.pc = "done" =>
          \A j \in DOMAIN batch.conversion_results :
             LET result == batch.conversion_results[j]
             IN  /\ ~IsNone(result.converted_color_id) =>
                       RecordOf(result).color_id = result.converted_color_id
                 /\ ~IsNone(result.converted_size_id) =>
                       RecordOf(result).size_id = result.converted_size_id
    /\ (batch.pc = "idle" /\ insert.op = "batch_insert" /\ insert.products = retrieved_data) =>
          \A j \in DOMAIN batch.conversion_results :
             LET result == batch.conversion_results[j]
             IN  /\ (~IsNone(result.converted_color_id) /\ insert.color.executed
                       /\ insert.color.raised = "") =>
                       \E i \in RowsOf(tm9030color, RecordOf(result)) :
                          tm9030color[i].color_id = result.converted_color_id
                 /\ (~IsNone(result.converted_size_id) /\ insert.size.executed
                       /\ insert.size.raised = "") =>
                       \E i \in RowsOf(tm9035size, RecordOf(result)) :
                          tm9035size[i].size_id = result.converted_size_id

\* the second half alone: what batch_insert writes after a run
C14_ResolvedIdIsRegistered ==
    (batch.pc = "idle" /\ insert.op = "batch_insert" /\ insert.products = retrieved_data) =>
        \A j \in DOMAIN batch.conversion_results :
           LET result == batch.conversion_results[j]
           IN  (~IsNone(result.converted_color_id) /\ insert.color.executed
                  /\ insert.color.raised = "") =>
                  \E i \in RowsOf(tm9030color, RecordOf(result)) :
                     tm9030color[i].color_id = result.converted_color_id

(***************************************************************************)
(* Rule administration: delete_rule, update_rule, add_*_rule.              *)
(***************************************************************************)
RuleTable(rule_type) ==
    IF rule_type = "color" THEN color_conversion_rules ELSE size_conversion_rules

\* the step is a call of delete_rule for a rule that is stored and inactive
DeletesInactive ==
    /\ call.op = "none"
    /\ call'.op = "delete_rule"
    /\ \E i \in DOMAIN RuleTable(Val(call'.arg)[2]) :
          /\ RuleTable(Val(call'.arg)[2])[i].id = Val(call'.arg)[1]
          /\ ~RuleTable(Val(call'.arg)[2])[i].is_active

\* the two rows are the same rule with the same values, updated_at aside
SameButUpdatedAt(old, new) == [new EXCEPT !.updated_at = old.updated_at] = old

\* C21 as stated: delete_rule on a rule that is inactive already is a no-op,
\* the rule store after the call is identical to the store before it.
C21_SecondDeleteIsNoOp ==
    [][DeletesInactive =>
          /\ color_conversion_rules' = color_conversion_rules
          /\ size_conversion_rules' = size_conversion_rules]_vars

\* C21: delete_rule on a rule that is inactive already raises nothing but a
\* storage failure, removes no row and changes no value of any rule except
\* the updated_at of the rule it names: that one is written again with the
\* time of the call whenever the statement succeeds.  The rule stays
\* inactive, and a call that raises leaves the store as it was.
C21_SecondDeleteOnlyStamps ==
    [][DeletesInactive =>
          /\ call'.raised \in {"", "DatabaseError"}
          /\ \A ty \in {"color", "size"} :
                /\ Len(RuleTable(ty)') = Len(RuleTable(ty))
                /\ \A i \in DOMAIN RuleTable(ty) :
                      IF /\ call'.raised = ""
                         /\ ty = Val(call'.arg)[2]
                         /\ RuleTable(ty)[i].id = Val(call'.arg)[1]
                      THEN /\ SameButUpdatedAt(RuleTable(ty)[i], RuleTable(ty)'[i])
                           /\ ~RuleTable(ty)'[i].is_active
                           /\ RuleTable(ty)'[i].updated_at > RuleTable(ty)[i].updated_at
                      ELSE RuleTable(ty)'[i] = RuleTable(ty)[i]]_vars

\* delete_rule has returned for a rule that two delete_rule calls have
\* written: only delete_rule stamps rows here, and the first call left the
\* rule inactive
C21_Witness ==
    /\ call.op = "delete_rule"
    /\ call.raised = ""
    /\ \E i \in DOMAIN RuleTable(Val(call.arg)[2]) :
          /\ RuleTable(Val(call.arg)[2])[i].id = Val(call.arg)[1]
          /\ ~RuleTable(Val(call.arg)[2])[i].is_active
          /\ RuleTable(Val(call.arg)[2])[i].updated_at = 2

(***************************************************************************)
(* Conversion history.                                                     *)
(***************************************************************************)
\* the step is an iteration of auto_convert_batch that reached
\* add_conversion_history (neither matcher call raised before it)
CallsAddHistory ==
    /\ batch.pc = "loop"
    /\ batch'.pc = "loop"
    /\ batch'.i = batch.i + 1
    /\ call'.color.raised = ""
    /\ call'.size.raised = ""

\* C22: in every step the rows of conversion_history stored before are all
\* still there, in place and unchanged; a step adds at most one row, only a
\* call of add_conversion_history adds one, and every call of it that
\* returns without raising has added exactly one.
C22_HistoryIsAppendOnly ==
    [][/\ Len(conversion_history') >= Len(conversion_history)
       /\ SubSeq(conversion_history', 1, Len(conversion_history)) = conversion_history
       /\ Len(conversion_history') <= Len(conversion_history) + 1
       /\ Len(conversion_history') = Len(conversion_history) + 1 => CallsAddHistory
       /\ (CallsAddHistory /\ call'.raised = "") =>
             Len(conversion_history') = Len(conversion_history) + 1]_vars

\* add_conversion_history has returned after appending a second row behind
\* the row of an earlier iteration
C22_Witness ==
    /\ Len(conversion_history) = 2
    /\ call.op = "auto_convert_batch"
    /\ call.raised = ""
    /\ conversion_history[1].id = 1
    /\ conversion_history[2].id = 2

(***************************************************************************)
(* Confidence of stored rules.                                             *)
(***************************************************************************)
\* confidence is a value of [0.0, 1.0], in thousandths
InUnitRange(confidence) == 0 <= confidence /\ confidence <= 1000

\* C23: whatever confidence the callers of add_color_rule, add_size_rule and
\* update_rule pass, every rule in the two rule tables has a confidence in
\* [0, 1].
C23_StoredConfidenceInRange ==
    \A ty \in {"color", "size"} : \A i \in DOMAIN RuleTable(ty) :
        InUnitRange(RuleTable(ty)[i].confidence)

(***************************************************************************)
(* add_color_rule / add_size_rule.                                         *)
(***************************************************************************)
\* the step is a call of add_color_rule or add_size_rule
AddsRule == call.op = "none" /\ call'.op \in {"add_color_rule", "add_size_rule"}

AddedTo(op) == IF op = "add_color_rule" THEN "color" ELSE "size"

\* C24: add_color_rule / add_size_rule returns the id of the rule it has just
\* inserted, a rule of that domain's table with the given source_name and
\* target; when it raises (DatabaseError) no rule has been added.
C24_ReturnsInsertedId ==
    [][AddsRule =>
          \A ty \in {AddedTo(call'.op)} :
          IF call'.raised = ""
          THEN /\ Len(RuleTable(ty)') = Len(RuleTable(ty)) + 1
               /\ \E row \in {RuleTable(ty)'[Len(RuleTable(ty)')]} :
                     /\ row.id = Val(call'.out)
                     /\ row.source_name = Val(call'.arg)[1]
                     /\ row.target_id = Val(call'.arg)[2]
                     /\ row.target_name = Val(call'.arg)[3]
          ELSE /\ call'.raised = "DatabaseError"
               /\ color_conversion_rules' = color_conversion_rules
               /\ size_conversion_rules' = size_conversion_rules]_vars

\* the part of C24 that does not depend on the id query: a call that returns
\* has appended one rule with the given values to its own table and left the
\* other table alone, and a call whose INSERT failed has stored nothing
C24_InsertsGivenRule ==
    [][AddsRule =>
          \A ty \in {AddedTo(call'.op)} :
          /\ \A other \in {"color", "size"} \ {ty} : RuleTable(other)' = RuleTable(other)
          /\ SubSeq(RuleTable(ty)', 1, Len(RuleTable(ty))) = RuleTable(ty)
          /\ Len(RuleTable(ty)') <= Len(RuleTable(ty)) + 1
          /\ call'.raised = "" =>
                /\ Len(RuleTable(ty)') = Len(RuleTable(ty)) + 1
                /\ \E row \in {RuleTable(ty)'[Len(RuleTable(ty)')]} :
                      /\ row.source_name = Val(call'.arg)[1]
                      /\ row.target_id = Val(call'.arg)[2]
                      /\ row.target_name = Val(call'.arg)[3]
                      /\ row.confidence = Val(call'.arg)[4]]_vars

(***************************************************************************)
(* update_rule without an updatable field.                                 *)
(***************************************************************************)
\* the step is a call of update_rule whose keywords name no updatable field
UpdatesNothing ==
    /\ call.op = "none"
    /\ call'.op = "update_rule"
    /\ update_fields(Val(call'.arg)[3]) = {}

\* C25: update_rule called with no updatable field raises ValidationError to
\* its caller and leaves both rule tables as they were.
C25_NoFieldIsValidationError ==
    [][UpdatesNothing =>
          /\ call'.raised = "ValidationError"
          /\ color_conversion_rules' = color_conversion_rules
          /\ size_conversion_rules' = size_conversion_rules]_vars

\* what the code does in that case: the caller gets DatabaseError, and both
\* rule tables are as they were
C25_NoFieldIsDatabaseError ==
    [][UpdatesNothing =>
          /\ call'.raised = "DatabaseError"
          /\ color_conversion_rules' = color_conversion_rules
          /\ size_conversion_rules' = size_conversion_rules]_vars

(***************************************************************************)
(* Sessions.                                                               *)
(***************************************************************************)
\* get_session has returned, normally or with an exception
SessionOver == call.op = "get_session" /\ call.pc = "returned"

\* no table differs from what the session found when it was opened, except
\* the tables named
OnlyChanged(names) ==
    \A name \in DOMAIN Tables \ names : Tables[name] = call.before[name]

\* C26 as stated: a session that is over is closed; it is committed if and
\* only if the body exited normally, and rolled back if and only if the body
\* raised.
C26_CommittedIffBodyReturns ==
    SessionOver =>
        /\ call.closed
        /\ call.committed <=> call.body = ""
        /\ call.rolled_back <=> call.body # ""

\* C26: every session that is opened ends closed.  session.commit() is run
\* if and only if the body exited normally; the session ends committed when
\* the body and the commit both went through, and rolled back when the body
\* or the commit raised, and then the exception reaches the caller as it was
\* raised.  A session that does not end committed leaves every table as it
\* found it, so what earlier sessions committed is intact; a committed one
\* has changed the table of its statement and no other.  Until the commit
\* nothing the session did is in the tables.
C26_SessionDiscipline ==
    /\ SessionOver =>
          /\ call.closed
          /\ call.pending = None
          /\ call.committed <=> (call.body = "" /\ call.commit = "")
          /\ call.rolled_back <=> (call.body # "" \/ call.commit # "")
          /\ call.committed <=> ~call.rolled_back
          /\ call.raised = (IF call.body # "" THEN call.body ELSE call.commit)
          /\ call.rolled_back => OnlyChanged({})
          /\ call.committed => OnlyChanged({TargetOf(call.statement)})
    /\ (call.op = "get_session" /\ ~call.committed) => OnlyChanged({})

\* a session whose statement failed is over, rolled back and closed, and the
\* rule an earlier session committed is in its table
C26_Witness ==
    /\ SessionOver
    /\ call.body # ""
    /\ call.rolled_back
    /\ call.closed
    /\ Len(color_conversion_rules) = 1
    /\ call.statement.kind = "history"

\* a session is over and committed, and its statement's work is in the table
C26_WitnessCommitted ==
    /\ SessionOver
    /\ call.committed
    /\ call.statement.kind = "upsert"
    /\ tm9030color # call.before.tm9030color

(***************************************************************************)
(* One row per record id.                                                  *)
(***************************************************************************)
\* the writer of the domain executed its statement in the last call and did
\* not raise
Wrote(domain) ==
    IF domain = "color" THEN insert.color.executed /\ insert.color.raised = ""
    ELSE insert.size.executed /\ insert.size.raised = ""

TargetTable(domain) == IF domain = "color" THEN tm9030color ELSE tm9035size

\* C27: after any sequence of writes each target table holds at most one row
\* per product_id, and after a write every product_id of its input (with the
\* id of the domain set) has exactly one row, carrying the values of the last
\* input record with that product_id, also when the input of the one write
\* holds the product_id more than once.
C27_OneRowPerRecordId ==
    \A domain \in {"color", "size"} :
        /\ NoDuplicates(TargetTable(domain))
        /\ Wrote(domain) =>
              \A product_id \in ProductIds(insert.products, WithId(domain, insert.products)) :
                 \E i \in DOMAIN TargetTable(domain) :
                    ValuesOf(domain, TargetTable(domain)[i],
                             LastWritten(domain, insert.products, product_id))

\* one write whose input holds a product_id twice, with different values:
\* the table holds one row for it
C27_Witness ==
    /\ insert.op = "insert_tm9030color"
    /\ Wrote("color")
    /\ Len(insert.products) = 2
    /\ insert.products[1].product_id = insert.products[2].product_id
    /\ insert.products[1].color_id # insert.products[2].color_id
    /\ ~IsNone(insert.products[1].color_id)
    /\ ~IsNone(insert.products[2].color_id)
    /\ Len(tm9030color) = 1
    /\ tm9030color[1].color_id = insert.products[2].color_id

(***************************************************************************)
(* Records failed for insufficient confidence.                             *)
(***************************************************************************)
\* the record of the last iteration has a resolved id and a confidence below
\* the threshold of the run
ResolvedBelowThreshold ==
    /\ Recorded
    /\ (~IsNone(IdOf(call.color)) \/ ~IsNone(IdOf(call.size)))
    /\ LastResult.confidence < batch.confidence_threshold

\* C28: a record whose confidence is below the threshold is marked "failed"
\* with its resolved ids left in place: the result and the history row carry
\* the ids the matchers returned, with status "failed".
C28_FailedKeepsResolvedIds ==
    ResolvedBelowThreshold =>
        /\ LastResult.status = "failed"
        /\ LastResult.converted_color_id = IdOf(call.color)
        /\ LastResult.converted_size_id = IdOf(call.size)
        /\ LastHistory.product_id = LastResult.product_id
        /\ LastHistory.status = "failed"
        /\ LastHistory.converted_color_id = IdOf(call.color)
        /\ LastHistory.converted_size_id = IdOf(call.size)

\* a color id was resolved with a confidence below the threshold: the
\* failed result and its history row hold it
C28_Witness ==
    /\ ResolvedBelowThreshold
    /\ ~IsNone(LastResult.converted_color_id)
    /\ LastResult.status = "failed"
    /\ LastHistory.status = "failed"
    /\ LastHistory.converted_color_id = LastResult.converted_color_id

(***************************************************************************)
(* Confidence produced by the engine.                                      *)
(***************************************************************************)
\* every active rule of both tables has a confidence in [0, 1]
ActiveRulesInRange ==
    \A ty \in {"color", "size"} : \A i \in DOMAIN RuleTable(ty) :
        RuleTable(ty)[i].is_active => InUnitRange(RuleTable(ty)[i].confidence)

\* C29: when every active rule has a confidence in [0, 1], every confidence
\* the engine produces is in [0, 1]: the confidence of a matcher result, the
\* confidence convert_composite returns, and the confidence of every result
\* of a batch run.
C29_EngineConfidenceInRange ==
    ActiveRulesInRange =>
        /\ \A o \in MatcherOutcomes : ~IsNone(o.result) => InUnitRange(Val(o.result)[3])
        /\ (call.op = "convert_composite" /\ ~IsNone(call.out)) =>
              InUnitRange(Val(call.out)[3])
        /\ \A k \in DOMAIN batch.results : InUnitRange(batch.results[k].confidence)
        /\ \A k \in DOMAIN batch.conversion_results :
              InUnitRange(batch.conversion_results[k].confidence)

\* convert_composite resolved the color by a substring match on a rule of
\* confidence 1.0 (matcher 0.8, composite 0.4) while a deactivated rule
\* holds a confidence outside [0, 1]
C29_Witness ==
    /\ ActiveRulesInRange
    /\ ~C23_StoredConfidenceInRange
    /\ call.op = "convert_composite"
    /\ ~IsNone(call.color.result)
    /\ Val(call.color.result)[3] = 800
    /\ Val(call.out)[3] = 400

\* a batch run has a result whose confidence comes from a substring match
C29_WitnessBatch ==
    /\ ActiveRulesInRange
    /\ batch.pc = "done"
    /\ \E k \in DOMAIN batch.conversion_results :
          batch.conversion_results[k].confidence = 800

(***************************************************************************)
(* Bounded retry.                                                          *)
(***************************************************************************)
Failed(outcomes, k) == outcomes[k].raised # ""

\* C30: retry_on_failure(max_retries = n) invokes the wrapped function at
\* most n times; every invocation before the last one it made has failed; a
\* successful invocation is the last one and its value is returned; the call
\* raises only after n failed invocations, and then (n >= 1) it raises the
\* exception of the last of them.
C30_BoundedRetry ==
    call.op = "retry_on_failure" =>
        /\ Len(call.outcomes) <= call.max_retries
        /\ \A k \in 1..(Len(call.outcomes) - 1) : Failed(call.outcomes, k)
        /\ call.pc = "loop" => \A k \in DOMAIN call.outcomes : Failed(call.outcomes, k)
        /\ (call.pc = "returned" /\ call.raised = "") =>
              /\ call.outcomes # <<>>
              /\ ~Failed(call.outcomes, Len(call.outcomes))
              /\ call.out = Some(call.outcomes[Len(call.outcomes)].value)
        /\ (call.pc = "returned" /\ call.raised # "") =>
              /\ call.out = None
              /\ Len(call.outcomes) = call.max_retries
              /\ \A k \in DOMAIN call.outcomes : Failed(call.outcomes, k)
              /\ call.max_retries >= 1 =>
                    call.raised = call.outcomes[call.max_retries].raised

\* three attempts were allowed and all failed, the first with another
\* exception than the last: the exception of the third is raised
C30_Witness ==
    /\ call.op = "retry_on_failure"
    /\ call.pc = "returned"
    /\ call.max_retries = 3
    /\ Len(call.outcomes) = 3
    /\ call.outcomes[1].raised = "DatabaseError"
    /\ call.outcomes[3].raised = "ConversionError"
    /\ call.raised = "ConversionError"

\* the second of three allowed attempts succeeded: its value is returned and
\* no third attempt was made
C30_WitnessSuccess ==
    /\ call.op = "retry_on_failure"
    /\ call.pc = "returned"
    /\ call.max_retries = 3
    /\ Len(call.outcomes) = 2
    /\ call.out = Some(2)
====
